---------------------------- MODULE Spec2Model ----------------------------
(***************************************************************************)
(* Verification model of quocvuong92/ai-cli: the command risk classifier,  *)
(* the permission pattern matcher, the settings manager, the permission    *)
(* manager and the interactive agent loop.                                  *)
(*                                                                          *)
(* Command strings are TLA+ strings; Len, \o and SubSeq are the only string *)
(* operations used.  Regular expressions are values of a small syntax tree  *)
(* that RegexEnds interprets the way Go's regexp package (RE2) decides a    *)
(* match.                                                                   *)
(***************************************************************************)
EXTENDS Integers, Sequences, FiniteSets, TLC

-----------------------------------------------------------------------------
(* Characters *)

LowerChars ==
    {"a","b","c","d","e","f","g","h","i","j","k","l","m",
     "n","o","p","q","r","s","t","u","v","w","x","y","z"}

UpperChars ==
    {"A","B","C","D","E","F","G","H","I","J","K","L","M",
     "N","O","P","Q","R","S","T","U","V","W","X","Y","Z"}

DigitChars == {"0","1","2","3","4","5","6","7","8","9"}

\* \w of RE2: [0-9A-Za-z_]
WordChars == LowerChars \cup UpperChars \cup DigitChars \cup {"_"}

\* \s of RE2 and the white space strings.TrimSpace / strings.Fields remove
SpaceChars == {" ", "\t", "\n", "\r"}

CharAt(s, i) == SubSeq(s, i, i)

IsWordAt(s, i) == i >= 1 /\ i <= Len(s) /\ CharAt(s, i) \in WordChars

-----------------------------------------------------------------------------
(* Regular expressions (the subset of RE2 syntax the source uses) *)

Lit(s)   == [t |-> "lit", s |-> s]
Cls(S)   == [t |-> "cls", S |-> S]
AnyChar  == [t |-> "any"]
WordB    == [t |-> "wb"]
Bol      == [t |-> "bol"]
Eol      == [t |-> "eol"]
Cat(rs)  == [t |-> "cat", rs |-> rs]
Alt(rs)  == [t |-> "alt", rs |-> rs]
Star(r)  == [t |-> "star", r |-> r]
Plus(r)  == Cat(<<r, Star(r)>>)
Opt(r)   == Alt(<<r, Lit("")>>)
Rep12(r) == Cat(<<r, Opt(r)>>)
WS       == Cls(SpaceChars)
DotStar  == Star(AnyChar)

RECURSIVE RegexEnds(_, _, _)
RECURSIVE CatEnds(_, _, _, _)
RECURSIVE StarEnds(_, _, _, _)

\* The set of positions j such that re matches s[i .. j-1].
RegexEnds(re, s, i) ==
    CASE re.t = "lit"  -> IF i + Len(re.s) - 1 <= Len(s)
                             /\ SubSeq(s, i, i + Len(re.s) - 1) = re.s
                          THEN {i + Len(re.s)} ELSE {}
      [] re.t = "cls"  -> IF i <= Len(s) /\ CharAt(s, i) \in re.S
                          THEN {i + 1} ELSE {}
      [] re.t = "any"  -> IF i <= Len(s) /\ CharAt(s, i) # "\n"
                          THEN {i + 1} ELSE {}
      [] re.t = "wb"   -> IF IsWordAt(s, i - 1) # IsWordAt(s, i)
                          THEN {i} ELSE {}
      [] re.t = "bol"  -> IF i = 1 THEN {i} ELSE {}
      [] re.t = "eol"  -> IF i = Len(s) + 1 THEN {i} ELSE {}
      [] re.t = "cat"  -> CatEnds(re.rs, 1, s, {i})
      [] re.t = "alt"  -> UNION {RegexEnds(re.rs[k], s, i) : k \in 1..Len(re.rs)}
      [] re.t = "star" -> StarEnds(re.r, s, {i}, {i})

CatEnds(rs, k, s, from) ==
    IF k > Len(rs) \/ from = {}
    THEN from
    ELSE CatEnds(rs, k + 1, s, UNION {RegexEnds(rs[k], s, i) : i \in from})

StarEnds(r, s, frontier, seen) ==
    LET new == (UNION {RegexEnds(r, s, i) : i \in frontier}) \ seen
    IN  IF new = {} THEN seen ELSE StarEnds(r, s, new, seen \cup new)

\* (*Regexp).MatchString: an unanchored search.
MatchString(re, s) == \E i \in 1..(Len(s) + 1) : RegexEnds(re, s, i) # {}

-----------------------------------------------------------------------------
(* strings helpers *)

RECURSIVE TrimLeft(_)
TrimLeft(s) ==
    IF Len(s) > 0 /\ CharAt(s, 1) \in SpaceChars
    THEN TrimLeft(SubSeq(s, 2, Len(s)))
    ELSE s

RECURSIVE TrimRight(_)
TrimRight(s) ==
    IF Len(s) > 0 /\ CharAt(s, Len(s)) \in SpaceChars
    THEN TrimRight(SubSeq(s, 1, Len(s) - 1))
    ELSE s

TrimSpace(s) == TrimRight(TrimLeft(s))

HasPrefix(s, p) == Len(p) <= Len(s) /\ SubSeq(s, 1, Len(p)) = p

TrimPrefix(s, p) == IF HasPrefix(s, p) THEN SubSeq(s, Len(p) + 1, Len(s)) ELSE s

HasSuffix(s, p) == Len(p) <= Len(s) /\ SubSeq(s, Len(s) - Len(p) + 1, Len(s)) = p

TrimSuffix(s, p) == IF HasSuffix(s, p) THEN SubSeq(s, 1, Len(s) - Len(p)) ELSE s

\* strings.Index: the first position of sub in s, 0 when absent.
Index(s, sub) ==
    LET hits == {i \in 1..(Len(s) + 1) : HasPrefix(SubSeq(s, i, Len(s)), sub)}
    IN  IF hits = {} THEN 0 ELSE CHOOSE i \in hits : \A j \in hits : i <= j

LastIndex(s, sub) ==
    LET hits == {i \in 1..(Len(s) + 1) : HasPrefix(SubSeq(s, i, Len(s)), sub)}
    IN  IF hits = {} THEN 0 ELSE CHOOSE i \in hits : \A j \in hits : i >= j

Contains(s, sub) == Index(s, sub) # 0

\* strings.Fields(s)[0] for a string that has a field; "" when it has none.
FirstField(s) ==
    LET t    == TrimLeft(s)
        stop == {i \in 1..Len(t) : CharAt(t, i) \in SpaceChars}
        cut  == IF stop = {} THEN Len(t) + 1
                ELSE CHOOSE i \in stop : \A j \in stop : i <= j
    IN  SubSeq(t, 1, cut - 1)

-----------------------------------------------------------------------------
(* Command risk classifier *)

Safe         == "Safe"
NeedsConfirm == "NeedsConfirm"
Dangerous    == "Dangerous"

safeCommands ==
    {"ls", "cat", "pwd", "echo", "head", "tail", "grep", "find",
     "which", "whoami", "date", "wc", "sort", "uniq", "diff",
     "env", "printenv", "df", "du", "ps", "top", "tree",
     "file", "stat", "basename", "dirname", "realpath",
     "ping", "traceroute", "nslookup", "dig"}

SubCommand(tool, subs) ==
    Cat(<<Bol, Lit(tool), Plus(WS), Alt([k \in 1..Len(subs) |-> Lit(subs[k])])>>)

safePatterns ==
    << SubCommand("git", <<"status", "log", "diff", "branch", "show", "remote">>),
       SubCommand("npm", <<"list", "ls", "view", "info", "outdated">>),
       SubCommand("pip", <<"list", "show", "freeze">>),
       SubCommand("cargo", <<"tree", "search", "check">>),
       SubCommand("go", <<"list", "version", "env">>),
       SubCommand("docker", <<"ps", "images", "inspect", "logs">>),
       SubCommand("kubectl", <<"get", "describe", "logs">>) >>

Shells == Alt(<<Lit("sh"), Lit("bash"), Lit("zsh")>>)

Word(w) == Cat(<<WordB, Lit(w), WordB>>)

dangerousPatterns ==
    << Cat(<<Lit("rm"), Plus(WS),
             Opt(Cat(<<Lit("-"), Star(Cls({"r", "f"})), Plus(WS)>>)), Lit("/")>>),
       Word("sudo"),
       Word("su"),
       Cat(<<Lit("dd"), Plus(WS), Lit("if=")>>),
       Lit("mkfs"),
       Lit(":(){"),
       Cat(<<Lit("curl"), DotStar, Lit("|"), Star(WS), Shells>>),
       Cat(<<Lit("wget"), DotStar, Lit("|"), Star(WS), Shells>>),
       Cat(<<Lit(">"), Star(WS), Lit("/dev/sd")>>),
       Cat(<<Lit("chmod"), DotStar, Lit("777")>>),
       Cat(<<Lit("chown"), DotStar, Lit("-R"), Plus(WS)>>),
       Word("eval"),
       Word("source"),
       Word("exec"),
       Cat(<<Lit(">"), Star(WS), Lit("/etc/")>>),
       Cat(<<Lit("rm"), Plus(WS), Lit("-rf"), Plus(WS), Cls({"~", "$"})>>),
       Cat(<<Lit(">"), Star(WS), Lit("/dev/null"), Star(WS), Lit("2>&1"),
             Star(WS), Lit("&")>>),
       Cat(<<Lit("|"), DotStar, Lit("base64"), DotStar, Lit("-d")>>),
       Cat(<<Lit("python"), DotStar, Lit("-c"), DotStar, Lit("exec")>>),
       Cat(<<Lit("perl"), DotStar, Lit("-e")>>),
       Cat(<<Lit("ruby"), DotStar, Lit("-e")>>) >>

commandChainingPattern == Rep12(Cls({";", "&", "|"}))

MatchesAny(patterns, s) ==
    \E k \in 1..Len(patterns) : MatchString(patterns[k], s)

\* Mutant of ClassifyCommand: the chaining check comes before the
\* dangerous patterns.
ClassifyCommand_ChainingFirst(raw) ==
    LET cmd == TrimSpace(raw)
    IN  IF cmd = "" THEN Dangerous
        ELSE IF MatchString(commandChainingPattern, cmd) THEN NeedsConfirm
        ELSE IF MatchesAny(dangerousPatterns, cmd) THEN Dangerous
        ELSE IF FirstField(cmd) = "" THEN Dangerous
        ELSE IF FirstField(cmd) \in safeCommands THEN Safe
        ELSE IF MatchesAny(safePatterns, cmd) THEN Safe
        ELSE NeedsConfirm

\* Mutant of ClassifyCommand: the whole command, not its first field, is
\* looked up in safeCommands.
ClassifyCommand_WholeCommand(raw) ==
    LET cmd == TrimSpace(raw)
    IN  IF cmd = "" THEN Dangerous
        ELSE IF MatchesAny(dangerousPatterns, cmd) THEN Dangerous
        ELSE IF MatchString(commandChainingPattern, cmd) THEN NeedsConfirm
        ELSE IF FirstField(cmd) = "" THEN Dangerous
        ELSE IF cmd \in safeCommands THEN Safe
        ELSE IF MatchesAny(safePatterns, cmd) THEN Safe
        ELSE NeedsConfirm

\* Mutant of ClassifyCommand: the safe-command lookup comes before the
\* chaining check.
ClassifyCommand_SafeFirst(raw) ==
    LET cmd == TrimSpace(raw)
    IN  IF cmd = "" THEN Dangerous
        ELSE IF MatchesAny(dangerousPatterns, cmd) THEN Dangerous
        ELSE IF FirstField(cmd) = "" THEN Dangerous
        ELSE IF FirstField(cmd) \in safeCommands THEN Safe
        ELSE IF MatchString(commandChainingPattern, cmd) THEN NeedsConfirm
        ELSE IF MatchesAny(safePatterns, cmd) THEN Safe
        ELSE NeedsConfirm

ClassifyCommand(raw) ==
    LET cmd == TrimSpace(raw)
    IN  IF cmd = "" THEN Dangerous
        ELSE IF MatchesAny(dangerousPatterns, cmd) THEN Dangerous
        ELSE IF MatchString(commandChainingPattern, cmd) THEN NeedsConfirm
        ELSE IF FirstField(cmd) = "" THEN Dangerous
        ELSE IF FirstField(cmd) \in safeCommands THEN Safe
        ELSE IF MatchesAny(safePatterns, cmd) THEN Safe
        ELSE NeedsConfirm

-----------------------------------------------------------------------------
(* Permission pattern matcher (package settings) *)

NoMatch == "NoMatch"
Allow   == "Allow"
Deny    == "Deny"

PermissionRule(pattern, tool) == [Pattern |-> pattern, Tool |-> tool]

\* "Tool(pattern)" -> "pattern"
extractPatternFromTool(pattern) ==
    LET start == Index(pattern, "(")
        end   == LastIndex(pattern, ")")
    IN  IF start # 0 /\ end > start
        THEN SubSeq(pattern, start + 1, end - 1)
        ELSE pattern

\* regexp.QuoteMeta(pattern) with every \* replaced by .* : the literal pieces
\* between the stars, joined by .*
RECURSIVE GlobPieces(_)
GlobPieces(pattern) ==
    LET star == Index(pattern, "*")
    IN  IF star = 0
        THEN <<Lit(pattern)>>
        ELSE <<Lit(SubSeq(pattern, 1, star - 1)), DotStar>>
             \o GlobPieces(SubSeq(pattern, star + 1, Len(pattern)))

matchGlobPattern(command, pattern) ==
    MatchString(Cat(<<Bol>> \o GlobPieces(pattern) \o <<Eol>>), command)

\* Mutant of matchColonPattern: the prefix is tested as a bare string prefix.
matchColonPattern_BarePrefix(command, pattern) ==
    LET colon  == Index(pattern, ":")
        prefix == SubSeq(pattern, 1, colon - 1)
        suffix == SubSeq(pattern, colon + 1, Len(pattern))
    IN  colon # 0 /\ HasPrefix(command, prefix) /\ suffix = "*"

matchColonPattern(command, pattern) ==
    LET colon  == Index(pattern, ":")
        prefix == SubSeq(pattern, 1, colon - 1)
        suffix == SubSeq(pattern, colon + 1, Len(pattern))
        rest   == TrimPrefix(TrimPrefix(command, prefix), " ")
    IN  IF colon = 0 THEN FALSE
        ELSE IF ~HasPrefix(command, prefix \o " ") /\ command # prefix THEN FALSE
        ELSE IF suffix = "*" THEN TRUE
        ELSE IF Contains(suffix, "*") THEN matchGlobPattern(rest, suffix)
        ELSE IF FirstField(rest) # "" /\ FirstField(rest) = suffix THEN TRUE
        ELSE rest = suffix

Match(rawCommand, rule) ==
    LET command == TrimSpace(rawCommand)
        inner   == IF rule.Tool # "" /\ Contains(rule.Pattern, "(")
                   THEN extractPatternFromTool(rule.Pattern)
                   ELSE rule.Pattern
        pattern == TrimSpace(inner)
    IN  IF pattern = command THEN TRUE
        ELSE IF Contains(pattern, ":") THEN matchColonPattern(command, pattern)
        ELSE IF Contains(pattern, "*") THEN matchGlobPattern(command, pattern)
        ELSE HasPrefix(command, pattern \o " ") \/ command = pattern

\* Mutant of MatchRules: only the first rule of the list is tried.
MatchRules_FirstOnly(command, rules) ==
    rules # <<>> /\ Match(command, rules[1])

MatchRules(command, rules) ==
    \E k \in 1..Len(rules) : Match(command, rules[k])

\* Mutant of MatcherCheckPermission: the allow rules are looked at first.
MatcherCheckPermission_AllowFirst(command, permissions) ==
    IF MatchRules(command, permissions.Allow) THEN Allow
    ELSE IF MatchRules(command, permissions.Deny) THEN Deny
    ELSE NoMatch

MatcherCheckPermission(command, permissions) ==
    IF MatchRules(command, permissions.Deny) THEN Deny
    ELSE IF MatchRules(command, permissions.Allow) THEN Allow
    ELSE NoMatch

ParsePattern(raw) ==
    LET pattern == TrimSpace(raw)
        idx     == Index(pattern, "(")
    IN  IF idx # 0
        THEN PermissionRule(
                 TrimSuffix(TrimPrefix(SubSeq(pattern, idx, Len(pattern)), "("), ")"),
                 SubSeq(pattern, 1, idx - 1))
        ELSE PermissionRule(pattern, "Bash")

-----------------------------------------------------------------------------
(* State *)

VARIABLES
    global,          \* settings.Manager.global
    project,         \* settings.Manager.project: <<>> is nil, <<s>> is &s
    merged,          \* settings.Manager.merged
    sessionAllowed,  \* PermissionManager.sessionAllowed (the set of its keys)
    globalFile,      \* the global settings.json on disk: <<>> when absent
    projectFile,     \* the project .ai-cli/settings.json on disk
    lastCheck,       \* <<the last CheckPermission call and its result>>, <<>>
                     \* once the permission state has changed since
    lastOnce,        \* <<the command of AddToAllowlist(cmd, ApprovalOnce) and what
                     \* CheckPermission decided for it before the call>> when
                     \* that was the last call on the permission manager
    clsCmd,          \* the argument of a ClassifyCommand call
    clsRisk,         \* what that call returned ("none" before it returns)
    messages,        \* InteractiveSession.messages
    pc,              \* where the REPL is: "idle" at the prompt, "request" before
                     \* a model request, "tools" while tool calls are processed
    pending,         \* the tool calls of the response not yet processed
    turnStart,       \* messages as they were when the user's input arrived
    turnEnd,         \* how the last turn ended: "none", "answer", "cancelled", "error"
    sent,            \* the conversation of the last model request
    lastExec,        \* <<what handleExecuteCommand did for the last execute_command call>>
    mtcCmd,          \* the command of a PatternMatcher.CheckPermission call
    mtcPerms,        \* the Permissions of that call
    mtcResult,       \* what that call returned ("none" before it returns)
    ctxDone,         \* the caller's context has been cancelled
    stream,          \* the lines of the response body not yet read
    consumed,        \* the lines read so far
    spc,             \* where the stream request is: "off", "check" (top of the
                     \* read loop), "read" (about to read a line), "processed"
                     \* (Process returned nil), "returned"
    contentBuilder,  \* SSEProcessor.contentBuilder
    toolCallsMap,    \* SSEProcessor.toolCallsMap
    responseID,      \* SSEProcessor.responseID
    finalUsage,      \* SSEProcessor.finalUsage (its TotalTokens)
    emitted,         \* the strings onChunk was called with, in call order
    streamErr,       \* the error WithStreamRetry returned ("" for nil)
    delivered,       \* <<the response onDone was called with>>
    cancelPoint,     \* <<spc and the number of unread lines at the moment the
                     \* context was cancelled>>
    policy,          \* the retry wrapper running: "none", "api", "search", "stream"
    rpc,             \* where it is: "off", "direct", "check", "call", "backoff", "returned"
    attempt,         \* the loop variable attempt
    outcomes,        \* what each invocation of the operation returned, in order
    lastErr,         \* the wrapper's lastErr (<<>> for nil)
    retResult,       \* <<what the wrapper returned>>
    slept,           \* the backoff waits that ran to their end, in milliseconds
    keyCount,        \* len(KeyRotator.keys)
    currentIdx,      \* KeyRotator.currentIdx
    tm,              \* auth.TokenManager: copilotToken, expiresAt, cancelRefresh
    mu,              \* TokenManager.mu, a sync.RWMutex
    procs,           \* the goroutines using the token manager, with their locals
    now,             \* time.Now(), in seconds
    tlog,            \* the requests made to the credential endpoint: how many,
                     \* how many of them answered badly, and who sent the last
                     \* one
    session,         \* runInteractive: the clients it created, the one in use,
                     \* the one its deferred Close is bound to, and whether it
                     \* has returned
    fs,              \* the file system the file tools work on, and the last
                     \* tool call with its result
    sm               \* a settings.Manager shared by goroutines: its mutex, its
                     \* stored global path, and where each goroutine is

permVars  == <<global, project, merged, sessionAllowed, globalFile, projectFile, lastCheck,
               lastOnce>>
clsVars   == <<clsCmd, clsRisk>>
agentVars == <<messages, pc, pending, turnStart, turnEnd, sent, lastExec>>
mtcVars   == <<mtcCmd, mtcPerms, mtcResult>>
streamVars == <<stream, consumed, spc, contentBuilder, toolCallsMap, responseID,
                finalUsage, emitted, streamErr, delivered, cancelPoint>>
retryVars == <<policy, rpc, attempt, outcomes, lastErr, retResult, slept, keyCount,
               currentIdx>>
tokenVars == <<tm, mu, procs, now, tlog>>
sideVars  == <<tokenVars, session, fs, sm>>
apiVars   == <<mtcVars, ctxDone, streamVars, retryVars, sideVars>>
vars      == <<global, project, merged, sessionAllowed, globalFile, projectFile,
               lastCheck, lastOnce, clsCmd, clsRisk, messages, pc, pending, turnStart,
               turnEnd, sent, lastExec, mtcCmd, mtcPerms, mtcResult, ctxDone,
               stream, consumed, spc, contentBuilder, toolCallsMap, responseID,
               finalUsage, emitted, streamErr, delivered, cancelPoint,
               policy, rpc, attempt, outcomes, lastErr, retResult, slept, keyCount,
               currentIdx,
               tm, mu, procs, now, tlog, session, fs, sm>>

\* No call of the pattern matcher on its own is under way.
NoMatcherCall ==
    /\ mtcCmd = ""
    /\ mtcPerms = [Allow |-> <<>>, Deny |-> <<>>]
    /\ mtcResult = "none"

\* No streaming request is under way.
NoStream ==
    /\ stream = <<>>
    /\ consumed = <<>>
    /\ spc = "off"
    /\ contentBuilder = ""
    /\ toolCallsMap = <<>>
    /\ responseID = ""
    /\ finalUsage = 0
    /\ emitted = <<>>
    /\ streamErr = ""
    /\ delivered = <<>>
    /\ cancelPoint = <<>>

\* No retry wrapper is running.
NoRetry ==
    /\ policy = "none"
    /\ rpc = "off"
    /\ attempt = 0
    /\ outcomes = <<>>
    /\ lastErr = <<>>
    /\ retResult = <<>>
    /\ slept = <<>>
    /\ keyCount = 0
    /\ currentIdx = 0

\* No token manager exists.
NoToken ==
    /\ tm = <<>>
    /\ mu = <<>>
    /\ procs = <<>>
    /\ now = 0
    /\ tlog = <<>>

\* Nothing outside the REPL and package api is running.
SideIdle == NoToken /\ session = <<>> /\ fs = <<>> /\ sm = <<>>

\* Nothing of package api or of the matcher on its own is running.
ApiIdle == NoMatcherCall /\ ctxDone = FALSE /\ NoStream /\ NoRetry /\ SideIdle

-----------------------------------------------------------------------------
(* Settings manager (package settings) *)

Settings(allow, deny, auto, dangerous) ==
    [Allow |-> allow, Deny |-> deny,
     AutoAllowSafeCommands |-> auto, DangerousEnabled |-> dangerous,
     sessionAllowlist |-> {}]

DefaultSettings == Settings(<<>>, <<>>, TRUE, FALSE)

\* json.MarshalIndent(settings): sessionAllowlist is not written (json:"-"),
\* every other field always is.
Marshal(st) ==
    [Allow |-> st.Allow, Deny |-> st.Deny,
     keys |-> {"auto_allow_safe_commands", "dangerous_enabled"},
     AutoAllowSafeCommands |-> st.AutoAllowSafeCommands,
     DangerousEnabled |-> st.DangerousEnabled]

\* loadFromFile: json.Unmarshal into a zero Settings, so a key the file does
\* not have leaves the field false; then a fresh session allowlist.
loadFromFile(doc) ==
    Settings(doc.Allow, doc.Deny,
             "auto_allow_safe_commands" \in doc.keys /\ doc.AutoAllowSafeCommands,
             "dangerous_enabled" \in doc.keys /\ doc.DangerousEnabled)

mergeSettings(g, p) ==
    IF p = <<>>
    THEN Settings(g.Allow, g.Deny, g.AutoAllowSafeCommands, g.DangerousEnabled)
    ELSE Settings(g.Allow \o p[1].Allow, g.Deny \o p[1].Deny,
                  p[1].AutoAllowSafeCommands, p[1].DangerousEnabled)

\* Manager.Load: what global, project and merged are after it.
LoadGlobal(gf)  == IF gf = <<>> THEN DefaultSettings ELSE loadFromFile(gf[1])
LoadProject(pf) == IF pf = <<>> THEN <<>> ELSE <<loadFromFile(pf[1])>>

AddGlobalAllowRule(g, rule) == [g EXCEPT !.Allow = Append(@, rule)]
AddGlobalDenyRule(g, rule)  == [g EXCEPT !.Deny = Append(@, rule)]

IsSessionAllowed(command) == command \in merged.sessionAllowlist

-----------------------------------------------------------------------------
(* Permission manager: inputs *)

\* The most rules the global settings hold.
MaxRules == 1

\* The commands the permission manager is asked about: a safe one, one that
\* needs confirmation, and the latter with further arguments, which makes it
\* a dangerous one.
PermCommands == {"ls", "rm", "rm -rf /tmp"}

\* The patterns given to /allow and /deny.
UserPatterns == {"rm:*", "rm -rf *"}

JsonDoc(allow, deny, keys, auto, dangerous) ==
    [Allow |-> allow, Deny |-> deny, keys |-> keys,
     AutoAllowSafeCommands |-> auto, DangerousEnabled |-> dangerous]

\* The settings files found at start-up.
\* No global file exists at first start; every later content of it is one
\* that Save wrote.
GlobalFiles == { <<>> }

ProjectFiles ==
    { <<>>,
      <<JsonDoc(<<PermissionRule("rm:*", "Bash")>>, <<>>, {}, FALSE, FALSE)>>,
      <<JsonDoc(<<>>, <<>>, {"auto_allow_safe_commands", "dangerous_enabled"},
                TRUE, TRUE)>> }

RuleCount == Len(global.Allow) + Len(global.Deny)

-----------------------------------------------------------------------------
(* Permission manager (package executor) *)

ApprovalOnce    == "Once"
ApprovalSession == "Session"
ApprovalAlways  == "Always"

Decision(allowed, needsConfirm, reason) ==
    [allowed |-> allowed, needsConfirm |-> needsConfirm, reason |-> reason]

\* Mutant of RiskDecision: with dangerous mode on, a dangerous command runs
\* without confirmation.
RiskDecision_DangerousRuns(risk, m) ==
    CASE risk = Safe ->
            IF m.AutoAllowSafeCommands
            THEN Decision(TRUE, FALSE, "Safe read-only command")
            ELSE Decision(FALSE, TRUE, "Confirmation required")
      [] risk = NeedsConfirm ->
            Decision(FALSE, TRUE, "Command may modify system state")
      [] risk = Dangerous ->
            IF m.DangerousEnabled
            THEN Decision(TRUE, FALSE, "Dangerous command")
            ELSE Decision(FALSE, FALSE, "Dangerous command blocked (use /allow-dangerous to enable)")
      [] OTHER -> Decision(FALSE, TRUE, "Unknown command type")

\* Mutant of RiskDecision: with dangerous mode off, a dangerous command is
\* allowed.
RiskDecision_DangerousPasses(risk, m) ==
    CASE risk = Safe ->
            IF m.AutoAllowSafeCommands
            THEN Decision(TRUE, FALSE, "Safe read-only command")
            ELSE Decision(FALSE, TRUE, "Confirmation required")
      [] risk = NeedsConfirm ->
            Decision(FALSE, TRUE, "Command may modify system state")
      [] risk = Dangerous ->
            IF m.DangerousEnabled
            THEN Decision(FALSE, TRUE, "Dangerous command (requires explicit confirmation)")
            ELSE Decision(TRUE, FALSE, "Dangerous command blocked (use /allow-dangerous to enable)")
      [] OTHER -> Decision(FALSE, TRUE, "Unknown command type")

RiskDecision(risk, m) ==
    CASE risk = Safe ->
            IF m.AutoAllowSafeCommands
            THEN Decision(TRUE, FALSE, "Safe read-only command")
            ELSE Decision(FALSE, TRUE, "Confirmation required")
      [] risk = NeedsConfirm ->
            Decision(FALSE, TRUE, "Command may modify system state")
      [] risk = Dangerous ->
            IF m.DangerousEnabled
            THEN Decision(FALSE, TRUE, "Dangerous command (requires explicit confirmation)")
            ELSE Decision(FALSE, FALSE, "Dangerous command blocked (use /allow-dangerous to enable)")
      [] OTHER -> Decision(FALSE, TRUE, "Unknown command type")

\* Mutant of CheckPermission: the rules are consulted before the session
\* allowlist.
CheckPermission_RulesFirst(cmd) ==
    IF MatcherCheckPermission(cmd, merged) = Deny
    THEN Decision(FALSE, FALSE, "Command blocked by deny rule")
    ELSE IF MatcherCheckPermission(cmd, merged) = Allow
    THEN Decision(TRUE, FALSE, "Allowed by permission rule")
    ELSE IF cmd \in sessionAllowed
    THEN Decision(TRUE, FALSE, "Allowed for this session")
    ELSE IF IsSessionAllowed(cmd)
    THEN Decision(TRUE, FALSE, "Previously approved")
    ELSE RiskDecision(ClassifyCommand(cmd), merged)

\* ClassifyCommand(cmd) for the commands the permission manager is asked
\* about, tabulated.
riskOf == [cmd \in PermCommands |-> ClassifyCommand(cmd)]

CheckPermission(cmd) ==
    IF cmd \in sessionAllowed
    THEN Decision(TRUE, FALSE, "Allowed for this session")
    ELSE IF IsSessionAllowed(cmd)
    THEN Decision(TRUE, FALSE, "Previously approved")
    ELSE IF MatcherCheckPermission(cmd, merged) = Deny
    THEN Decision(FALSE, FALSE, "Command blocked by deny rule")
    ELSE IF MatcherCheckPermission(cmd, merged) = Allow
    THEN Decision(TRUE, FALSE, "Allowed by permission rule")
    ELSE RiskDecision(riskOf[cmd], merged)

-----------------------------------------------------------------------------
(* Conversation messages (package api) *)

Message(role, content, toolCalls, toolCallID) ==
    [Role |-> role, Content |-> content, ToolCalls |-> toolCalls,
     ToolCallID |-> toolCallID]

SystemMessage          == Message("system", "DefaultSystemMessage", <<>>, "")
UserMessage(input)     == Message("user", input, <<>>, "")
AssistantMessage(text) == Message("assistant", text, <<>>, "")

\* runInteractive: a new session holds the system message alone.
NewConversation == <<SystemMessage>>

\* No interactive session is running.
NoSession ==
    /\ messages = NewConversation
    /\ pc = "off"
    /\ pending = <<>>
    /\ turnStart = NewConversation
    /\ turnEnd = "none"
    /\ sent = <<>>
    /\ lastExec = <<>>

-----------------------------------------------------------------------------
(* Permission manager: operations *)

\* Manager.Save: the global settings are written to the global file (the
\* disk is taken to be writable).
Save(g) == globalFile' = <<Marshal(g)>>

CallCheckPermission(cmd) ==
    /\ lastCheck' = <<[cmd |-> cmd, result |-> CheckPermission(cmd)]>>
    /\ lastOnce' = <<>>
    /\ UNCHANGED <<global, project, merged, sessionAllowed, globalFile, projectFile>>

\* Mutant of AddToAllowlist: every approval is remembered for the session.
AddToAllowlist_OnceRemembered(cmd, approvalType) ==
    /\ lastCheck' = <<>>
    /\ lastOnce' = IF approvalType = ApprovalOnce
                   THEN <<[cmd |-> cmd, before |-> CheckPermission(cmd)]>>
                   ELSE <<>>
    /\ sessionAllowed' = sessionAllowed \cup {cmd}
    /\ UNCHANGED <<global, merged, globalFile, project, projectFile>>

AddToAllowlist(cmd, approvalType) ==
    /\ lastCheck' = <<>>
    /\ lastOnce' = IF approvalType = ApprovalOnce
                   THEN <<[cmd |-> cmd, before |-> CheckPermission(cmd)]>>
                   ELSE <<>>
    /\ CASE approvalType = ApprovalOnce ->
               UNCHANGED <<global, merged, sessionAllowed, globalFile>>
         [] approvalType = ApprovalSession ->
               /\ sessionAllowed' = sessionAllowed \cup {cmd}
               /\ UNCHANGED <<global, merged, globalFile>>
         [] approvalType = ApprovalAlways ->
               /\ RuleCount < MaxRules
               /\ global' = AddGlobalAllowRule(global, PermissionRule(cmd, "Bash"))
               /\ merged' = mergeSettings(global', project)
               /\ Save(global')
               /\ UNCHANGED sessionAllowed
    /\ UNCHANGED <<project, projectFile>>

AddPatternRule(pattern, deny) ==
    /\ RuleCount < MaxRules
    /\ lastCheck' = <<>>
    /\ lastOnce' = <<>>
    /\ global' = IF deny THEN AddGlobalDenyRule(global, ParsePattern(pattern))
                         ELSE AddGlobalAllowRule(global, ParsePattern(pattern))
    /\ merged' = mergeSettings(global', project)
    /\ Save(global')
    /\ UNCHANGED <<project, sessionAllowed, projectFile>>

SetDangerousEnabled(enabled) ==
    /\ global' = [global EXCEPT !.DangerousEnabled = enabled]
    /\ merged' = [merged EXCEPT !.DangerousEnabled = enabled]

EnableDangerous ==
    /\ lastCheck' = <<>>
    /\ lastOnce' = <<>>
    /\ SetDangerousEnabled(TRUE)
    /\ UNCHANGED <<project, sessionAllowed, globalFile, projectFile>>

DisableDangerous ==
    /\ lastCheck' = <<>>
    /\ lastOnce' = <<>>
    /\ SetDangerousEnabled(FALSE)
    /\ UNCHANGED <<project, sessionAllowed, globalFile, projectFile>>

SetAutoAllowReads(enabled) ==
    /\ lastCheck' = <<>>
    /\ lastOnce' = <<>>
    /\ global' = [global EXCEPT !.AutoAllowSafeCommands = enabled]
    /\ merged' = [merged EXCEPT !.AutoAllowSafeCommands = enabled]
    /\ UNCHANGED <<project, sessionAllowed, globalFile, projectFile>>

ClearSessionAllowlist ==
    /\ lastCheck' = <<>>
    /\ lastOnce' = <<>>
    /\ sessionAllowed' = {}
    /\ merged' = [merged EXCEPT !.sessionAllowlist = {}]
    /\ UNCHANGED <<global, project, globalFile, projectFile>>

SaveSettings ==
    /\ lastCheck' = <<>>
    /\ lastOnce' = <<>>
    /\ Save(global)
    /\ UNCHANGED <<global, project, merged, sessionAllowed, projectFile>>

ReloadSettings ==
    /\ lastCheck' = <<>>
    /\ lastOnce' = <<>>
    /\ global' = LoadGlobal(globalFile)
    /\ project' = LoadProject(projectFile)
    /\ merged' = mergeSettings(global', project')
    /\ UNCHANGED <<sessionAllowed, globalFile, projectFile>>

\* NewPermissionManager: empty session allowlist, settings loaded from disk.
Init ==
    /\ globalFile \in GlobalFiles
    /\ projectFile \in ProjectFiles
    /\ global = LoadGlobal(globalFile)
    /\ project = LoadProject(projectFile)
    /\ merged = mergeSettings(global, project)
    /\ sessionAllowed = {}
    /\ lastCheck = <<>>
    /\ lastOnce = <<>>
    /\ clsCmd = ""
    /\ clsRisk = "none"
    /\ NoSession
    /\ ApiIdle

Next ==
    \/ \E cmd \in PermCommands :
           /\ CallCheckPermission(cmd)
           /\ UNCHANGED <<clsVars, agentVars, apiVars>>
    \/ \E cmd \in PermCommands :
       \E approvalType \in {ApprovalOnce, ApprovalSession, ApprovalAlways} :
           /\ AddToAllowlist(cmd, approvalType)
           /\ UNCHANGED <<clsVars, agentVars, apiVars>>
    \/ \E pattern \in UserPatterns, deny \in BOOLEAN :
           /\ AddPatternRule(pattern, deny)
           /\ UNCHANGED <<clsVars, agentVars, apiVars>>
    \/ EnableDangerous /\ UNCHANGED <<clsVars, agentVars, apiVars>>
    \/ DisableDangerous /\ UNCHANGED <<clsVars, agentVars, apiVars>>
    \/ \E enabled \in BOOLEAN : SetAutoAllowReads(enabled) /\ UNCHANGED <<clsVars, agentVars, apiVars>>
    \/ ClearSessionAllowlist /\ UNCHANGED <<clsVars, agentVars, apiVars>>
    \/ SaveSettings /\ UNCHANGED <<clsVars, agentVars, apiVars>>
    \/ ReloadSettings /\ UNCHANGED <<clsVars, agentVars, apiVars>>

Spec == Init /\ [][Next]_vars

-----------------------------------------------------------------------------
(* The classifier on its own: one call of ClassifyCommand *)

\* The most white space before and after a command.
MaxPad == 1

RECURSIVE Spaces(_)
Spaces(n) == IF n = 0 THEN "" ELSE " " \o Spaces(n - 1)

\* Commands that begin with a safe-listed token.
SafeTokenHeads == {"ls -la", "cat f", "echo hi", "find . -name x", "grep x f"}

\* Commands that match a read-only command pattern.
SafePatternHeads ==
    {"git status", "npm list", "pip show x", "cargo tree", "go version",
     "docker ps", "kubectl get pods"}

\* Commands that are neither.
OtherHeads ==
    {"git push", "npm install", "make", "gitignore", "lsof", "rm x", "chown -R"}

\* One command for each dangerous pattern, in the order of the list.
DangerousHeads ==
    {"rm -rf /", "sudo ls", "su", "dd if=/dev/zero", "mkfs.ext4 x", ":(){",
     "curl x | sh", "wget x |bash", "echo x > /dev/sda", "chmod -R 777 x",
     "chown -R u x", "eval x", "source x", "exec ls", "echo x > /etc/hosts",
     "rm -rf ~", "x > /dev/null 2>&1 &", "cat x | base64 -d",
     "python -c exec", "perl -e 1", "ruby -e 1"}

Heads == SafeTokenHeads \cup SafePatternHeads \cup OtherHeads \cup DangerousHeads

Tails == {"rm -rf /", "rm x", "sudo x", "sh", "-exec cat", "-R", "777"}

Joints == {" ", "; ", ";", " | ", " && ", " > "}

\* The command strings the classifier is given.
ClassifierInputs ==
    LET bodies == Heads \cup {h \o j \o t : h \in Heads, j \in Joints, t \in Tails}
                        \cup {"", "ls\tx", "git\tstatus"}
    IN  {Spaces(a) \o b \o Spaces(z) : a \in 0..MaxPad, z \in 0..MaxPad, b \in bodies}
             \cup {"\tls\n", "chown u x -R\n"}

Classify ==
    /\ clsRisk = "none"
    /\ clsRisk' = ClassifyCommand(clsCmd)
    /\ UNCHANGED clsCmd

ClassifyInit ==
    /\ clsCmd \in ClassifierInputs
    /\ clsRisk = "none"
    /\ globalFile = <<>>
    /\ projectFile = <<>>
    /\ global = DefaultSettings
    /\ project = <<>>
    /\ merged = DefaultSettings
    /\ sessionAllowed = {}
    /\ lastCheck = <<>>
    /\ lastOnce = <<>>
    /\ NoSession
    /\ ApiIdle

ClassifyNext == Classify /\ UNCHANGED <<permVars, agentVars, apiVars>>

SpecClassify == ClassifyInit /\ [][ClassifyNext]_vars

-----------------------------------------------------------------------------
(* Interactive agent loop (package cmd) *)

\* The most messages a session's conversation holds.
MaxMessages == 6

ApprovalDenied == "Denied"
NotAsked       == "NotAsked"
Approvals      == {ApprovalDenied, ApprovalOnce, ApprovalSession, ApprovalAlways}

\* api.ToolCall.  Arguments is <<>> for text json.Unmarshal rejects and
\* <<command>> for a JSON object with that "command".
ToolCall(id, name, arguments) ==
    [ID |-> id, Name |-> name, Arguments |-> arguments]

ExecuteCall(id, cmd) == ToolCall(id, "execute_command", <<cmd>>)

\* The tool calls one model response may carry.
ToolCallLists ==
    { <<ExecuteCall("call_a", "ls")>>,
      <<ExecuteCall("call_a", "rm -rf /tmp")>>,
      <<ExecuteCall("call_a", "rm"), ExecuteCall("call_b", "rm -rf /tmp")>>,
      <<ToolCall("call_a", "execute_command", <<>>),
        ToolCall("call_b", "launch_rocket", <<"ls">>)>> }

\* What Executor.Execute hands back: the command it ran, whether it
\* succeeded, and its output.
ExecResult(cmd, success, output) ==
    [Command |-> cmd, Success |-> success, Output |-> output]

\* How a run of a command can end: whether it succeeds and what it prints.
ExecOutcomes ==
    { [Success |-> TRUE, Output |-> "output"], [Success |-> TRUE, Output |-> ""],
      [Success |-> FALSE, Output |-> ""] }

Execute(cmd, outcome) == ExecResult(cmd, outcome.Success, outcome.Output)

FormatResult(result) == "Error: command failed"

\* Mutant of Proceeds: the user's refusal is not looked at.
Proceeds_IgnoreDenied(decision, choice) ==
    decision.allowed \/ decision.needsConfirm

\* handleExecuteCommand, lines 51-63: whether the handler goes on to
\* Execute after the permission check and the user's choice.
Proceeds(decision, choice) ==
    /\ ~(~decision.allowed /\ ~decision.needsConfirm)
    /\ ~(decision.needsConfirm /\ choice = ApprovalDenied)

\* handleExecuteCommand, lines 53-87: what follows the permission check.
\* choice is the user's answer to the confirmation prompt, outcome how the
\* command ends if it is run.  Trace records what was checked and done.
afterCheck(command, decision, choice, outcome) ==
    LET asked == IF decision.needsConfirm THEN choice ELSE NotAsked
        trace(executed) ==
            <<[requested |-> command, checked |-> command,
               decision |-> decision, choice |-> asked, executed |-> executed]>>
        result == Execute(command, outcome)
    IN  IF ~decision.allowed /\ ~decision.needsConfirm
        THEN [Content |-> "Command blocked: " \o decision.reason,
              Trace |-> trace(<<>>)]
        ELSE IF ~Proceeds(decision, choice)
        THEN [Content |-> "Command execution denied by user",
              Trace |-> trace(<<>>)]
        ELSE [Content |-> IF ~result.Success THEN FormatResult(result)
                          ELSE IF result.Output = ""
                          THEN "Command executed successfully (no output)"
                          ELSE result.Output,
              Trace |-> trace(<<result.Command>>)]

\* handleExecuteCommand: the text it returns and what it did on the way.
handleExecuteCommand(tc, choice, outcome) ==
    IF tc.Arguments = <<>>
    THEN [Content |-> "Error parsing arguments", Trace |-> <<>>]
    ELSE afterCheck(tc.Arguments[1], CheckPermission(tc.Arguments[1]),
                    choice, outcome)

\* processToolCall for the tools of ToolCallLists.
processToolCall(tc, choice, outcome) ==
    IF tc.Name = "execute_command"
    THEN handleExecuteCommand(tc, choice, outcome)
    ELSE [Content |-> "Unknown tool: " \o tc.Name, Trace |-> <<>>]

ToolMessage(content, id) == Message("tool", content, <<>>, id)

\* runInteractive: the session starts with the permission manager built and
\* the system message in the conversation.
AgentInit ==
    /\ globalFile \in GlobalFiles
    /\ projectFile \in ProjectFiles
    /\ global = LoadGlobal(globalFile)
    /\ project = LoadProject(projectFile)
    /\ merged = mergeSettings(global, project)
    /\ sessionAllowed = {}
    /\ lastCheck = <<>>
    /\ lastOnce = <<>>
    /\ clsCmd = ""
    /\ clsRisk = "none"
    /\ messages = NewConversation
    /\ pc = "idle"
    /\ pending = <<>>
    /\ turnStart = NewConversation
    /\ turnEnd = "none"
    /\ sent = <<>>
    /\ lastExec = <<>>
    /\ ApiIdle

\* executor, line 342: the user's input joins the conversation and the
\* first model request is about to be made.
SubmitUserMessage ==
    /\ pc = "idle"
    /\ Len(messages) < MaxMessages
    /\ turnStart' = messages
    /\ messages' = Append(messages, UserMessage("input"))
    /\ pc' = "request"
    /\ turnEnd' = "none"
    /\ UNCHANGED <<pending, sent, lastExec>>

\* The model answers without tool calls: sendInteractiveMessageWithTools
\* returns the content, and executor (lines 356-358) stores it unless empty.
ModelAnswers(content) ==
    /\ pc = "request"
    /\ sent' = messages
    /\ content # "" => Len(messages) < MaxMessages
    /\ messages' = IF content # ""
                   THEN Append(messages, AssistantMessage(content))
                   ELSE messages
    /\ pc' = "idle"
    /\ turnEnd' = "answer"
    /\ UNCHANGED <<pending, turnStart, lastExec>>

\* The model answers with tool calls (lines 523-536): the assistant message
\* carrying them joins the conversation.
ModelCallsTools(content, toolCalls) ==
    /\ pc = "request"
    /\ Len(messages) + 1 + Len(toolCalls) <= MaxMessages
    /\ sent' = messages
    /\ messages' = Append(messages, Message("assistant", content, toolCalls, ""))
    /\ pending' = toolCalls
    /\ pc' = "tools"
    /\ UNCHANGED <<turnStart, turnEnd, lastExec>>

\* The request fails or is cancelled: sendInteractiveMessageWithTools returns
\* the error and executor (lines 345-355) drops the last stored message.
RequestFails(how) ==
    /\ pc = "request"
    /\ sent' = messages
    /\ messages' = SubSeq(messages, 1, Len(messages) - 1)
    /\ pc' = "idle"
    /\ turnEnd' = how
    /\ UNCHANGED <<pending, turnStart, lastExec>>

\* One round of the loop at lines 539-547: the next tool call is processed
\* and its result stored under the call's id.  After the last call the loop
\* goes back to the model.
ProcessToolCall(choice, outcome) ==
    /\ pc = "tools"
    /\ pending # <<>>
    /\ \E tc \in {Head(pending)} :
       \E out \in {processToolCall(tc, choice, outcome)} :
           /\ messages' = Append(messages, ToolMessage(out.Content, tc.ID))
           /\ lastExec' = IF out.Trace = <<>> THEN lastExec ELSE out.Trace
           /\ IF out.Trace # <<>> /\ out.Trace[1].executed # <<>>
                 /\ out.Trace[1].choice \in {ApprovalSession, ApprovalAlways}
              THEN AddToAllowlist(out.Trace[1].requested, out.Trace[1].choice)
              ELSE /\ lastCheck' = <<>>
                   /\ lastOnce' = <<>>
                   /\ UNCHANGED <<global, project, merged, sessionAllowed,
                                  globalFile, projectFile>>
    /\ pending' = Tail(pending)
    /\ pc' = IF Tail(pending) = <<>> THEN "request" ELSE "tools"
    /\ UNCHANGED <<turnStart, turnEnd, sent>>

\* handleCommand "/clear": the conversation is the system message again.
SlashClear ==
    /\ pc = "idle"
    /\ messages' = NewConversation
    /\ UNCHANGED <<pc, pending, turnStart, turnEnd, sent, lastExec>>

\* handleCommand "/allow-dangerous".
SlashAllowDangerous ==
    /\ pc = "idle"
    /\ EnableDangerous
    /\ UNCHANGED agentVars

AgentNext ==
    \/ SubmitUserMessage /\ UNCHANGED <<permVars, clsVars, apiVars>>
    \/ \E content \in {"", "answer"} :
           ModelAnswers(content) /\ UNCHANGED <<permVars, clsVars, apiVars>>
    \/ \E content \in {"", "thinking"}, toolCalls \in ToolCallLists :
           ModelCallsTools(content, toolCalls) /\ UNCHANGED <<permVars, clsVars, apiVars>>
    \/ \E how \in {"cancelled", "error"} :
           RequestFails(how) /\ UNCHANGED <<permVars, clsVars, apiVars>>
    \/ \E choice \in Approvals, outcome \in ExecOutcomes :
           ProcessToolCall(choice, outcome) /\ UNCHANGED <<clsVars, apiVars>>
    \/ SlashClear /\ UNCHANGED <<permVars, clsVars, apiVars>>
    \/ SlashAllowDangerous /\ UNCHANGED <<clsVars, apiVars>>

SpecAgent == AgentInit /\ [][AgentNext]_vars

-----------------------------------------------------------------------------
(* The pattern matcher on its own: one call of PatternMatcher.CheckPermission *)

\* The most rules in an allow list and in a deny list.
MaxListLen == 2

MatcherCommands ==
    {"rm -rf /tmp", "rm x", "git", "git status", "git commit -m x", "gitignore",
     "docker ps", "ls"}

MatcherRules ==
    { PermissionRule("rm:*", "Bash"), PermissionRule("rm -rf *", "Bash"),
      PermissionRule("git:*", "Bash"), PermissionRule("ls", "Bash") }

\* The rule lists of up to n rules.
RuleLists(n) ==
    UNION { [1..k -> MatcherRules] : k \in 0..n }

MatcherCall ==
    /\ mtcResult = "none"
    /\ mtcCmd # ""
    /\ mtcResult' = MatcherCheckPermission(mtcCmd, mtcPerms)
    /\ UNCHANGED <<mtcCmd, mtcPerms>>

MatcherInit ==
    /\ globalFile = <<>>
    /\ projectFile = <<>>
    /\ global = DefaultSettings
    /\ project = <<>>
    /\ merged = DefaultSettings
    /\ sessionAllowed = {}
    /\ lastCheck = <<>>
    /\ lastOnce = <<>>
    /\ clsCmd = ""
    /\ clsRisk = "none"
    /\ NoSession
    /\ SideIdle
    /\ mtcCmd \in MatcherCommands
    /\ mtcPerms \in [Allow : RuleLists(MaxListLen), Deny : RuleLists(MaxListLen)]
    /\ mtcResult = "none"
    /\ ctxDone = FALSE
    /\ NoStream
    /\ NoRetry

MatcherNext ==
    MatcherCall /\ UNCHANGED <<sideVars, permVars, clsVars, agentVars, ctxDone, streamVars, retryVars>>

SpecMatcher == MatcherInit /\ [][MatcherNext]_vars

-----------------------------------------------------------------------------
(* SSE stream processing (package api) *)

\* The most lines a response body holds.
MaxLines == 3

\* A line of the body as ReadString('\n') returns it.  text is the line with
\* the JSON document, if it holds one, written as {}; doc is <<>> when
\* json.Unmarshal rejects the data and <<chunk>> when it yields chunk.
Line(text, doc) == [text |-> text, doc |-> doc]

\* A tool-call delta of a chunk (api.ToolCall).
ToolCallDelta(index, id, type, name, arguments) ==
    [Index |-> index, ID |-> id, Type |-> type, Name |-> name,
     Arguments |-> arguments]

\* api.Choice of a streamed chunk: its Delta.
ChoiceDelta(content, toolCalls) ==
    [Delta |-> [Content |-> content, ToolCalls |-> toolCalls]]

\* api.ChatResponse as a streamed chunk; usage is Usage.TotalTokens.
Chunk(id, choices, usage) ==
    [ID |-> id, Choices |-> choices, Usage |-> [TotalTokens |-> usage]]

DataLine(chunk) == Line("data: {}\n", <<chunk>>)

DoneLine == Line("data: [DONE]\n", <<>>)

\* The lines a body is made of.
StreamLines ==
    { Line("\n", <<>>),
      Line(": ping\n", <<>>),
      Line("data: {bad\n", <<>>),
      DataLine(Chunk("r1", <<ChoiceDelta("a", <<>>)>>, 0)),
      DataLine(Chunk("", <<ChoiceDelta("b", <<>>)>>, 0)),
      DataLine(Chunk("", <<ChoiceDelta("",
          <<ToolCallDelta(0, "call_a", "function", "f", "x")>>)>>, 0)),
      DataLine(Chunk("", <<ChoiceDelta("",
          <<ToolCallDelta(0, "", "", "", "y")>>)>>, 0)),
      DataLine(Chunk("", <<ChoiceDelta("c",
          <<ToolCallDelta(1, "call_b", "function", "g", "z")>>)>>, 0)),
      DataLine(Chunk("", <<ChoiceDelta("",
          <<ToolCallDelta(2, "call_c", "function", "h", "u"),
            ToolCallDelta(2, "", "", "", "v")>>)>>, 0)),
      DataLine(Chunk("", <<>>, 7)),
      DoneLine }

Bodies == UNION { [1..n -> StreamLines] : n \in 0..MaxLines }

\* Mutant of ctxErr: the cancellation is never seen.
ctxErr_Never(done) == ""

\* ctx.Err(): "" is nil.
ctxErr(done) == IF done THEN "context canceled" ELSE ""

\* Process, lines 46-58: what a line turns out to be.  "skip" is a line the
\* loop passes over, "done" the sentinel, "json" data handed to Unmarshal.
lineKind(line) ==
    LET trimmed == TrimSpace(line.text)
    IN  IF trimmed = "" THEN "skip"
        ELSE IF ~HasPrefix(trimmed, "data: ") THEN "skip"
        ELSE IF TrimPrefix(trimmed, "data: ") = "[DONE]" THEN "done"
        ELSE "json"

\* Process, lines 72-73: the content a chunk carries ("" for none).
chunkContent(chunk) ==
    IF Len(chunk.Choices) > 0 THEN chunk.Choices[1].Delta.Content ELSE ""

\* Process, lines 79-80: the tool-call deltas a chunk carries.
chunkToolCalls(chunk) ==
    IF Len(chunk.Choices) > 0 THEN chunk.Choices[1].Delta.ToolCalls ELSE <<>>

\* Mutant of emit: a chunk is merged into the one the sink got last.
emit_Batched(sink, content) ==
    IF sink = <<>> THEN <<content>>
    ELSE [sink EXCEPT ![Len(sink)] = @ \o content]

\* Process, line 75: onChunk is called with the content.
emit(sink, content) == Append(sink, content)

\* Mutant of accumulate: a later delta replaces the arguments.
accumulate_Replace(map, tc) ==
    [i \in DOMAIN map \cup {tc.Index} |->
        IF i = tc.Index
        THEN [ID |-> tc.ID, Type |-> tc.Type, Index |-> tc.Index,
              Function |-> [Name |-> tc.Name, Arguments |-> tc.Arguments]]
        ELSE map[i]]

\* Process, lines 81-94: one tool-call delta joins the map.
accumulate(map, tc) ==
    IF tc.Index \in DOMAIN map
    THEN [map EXCEPT ![tc.Index].Function.Arguments = @ \o tc.Arguments]
    ELSE [i \in DOMAIN map \cup {tc.Index} |->
            IF i = tc.Index
            THEN [ID |-> tc.ID, Type |-> tc.Type, Index |-> tc.Index,
                  Function |-> [Name |-> tc.Name, Arguments |-> tc.Arguments]]
            ELSE map[i]]

\* Process, line 80: the deltas of a chunk join the map in order.
RECURSIVE accumulateAll(_, _)
accumulateAll(map, tcs) ==
    IF tcs = <<>> THEN map
    ELSE accumulateAll(accumulate(map, Head(tcs)), Tail(tcs))

\* BuildResponse, lines 109-114: the loop over i < len(toolCallsMap).
RECURSIVE collectToolCalls(_, _, _)
collectToolCalls(map, i, toolCalls) ==
    IF i >= Cardinality(DOMAIN map) THEN toolCalls
    ELSE collectToolCalls(map, i + 1,
             IF i \in DOMAIN map THEN Append(toolCalls, map[i]) ELSE toolCalls)

BuildResponse ==
    LET toolCalls == collectToolCalls(toolCallsMap, 0, <<>>)
    IN  [ID |-> responseID,
         Content |-> contentBuilder,
         ToolCalls |-> toolCalls,
         FinishReason |-> IF Len(toolCalls) > 0 THEN "tool_calls" ELSE "stop",
         Usage |-> finalUsage]

\* HasToolCalls of the processor.
HasToolCalls == Cardinality(DOMAIN toolCallsMap) > 0

\* Mutant of writeString: the builder keeps the last string only.
writeString_Last(builder, content) == content

\* strings.Builder.WriteString.
writeString(builder, content) == builder \o content

\* WithStreamRetry once fn has returned a response (lines 146-150): a
\* processor is made for the body and Process starts.
StreamInit ==
    /\ globalFile = <<>>
    /\ projectFile = <<>>
    /\ global = DefaultSettings
    /\ project = <<>>
    /\ merged = DefaultSettings
    /\ sessionAllowed = {}
    /\ lastCheck = <<>>
    /\ lastOnce = <<>>
    /\ clsCmd = ""
    /\ clsRisk = "none"
    /\ NoSession
    /\ SideIdle
    /\ NoMatcherCall
    /\ NoRetry
    /\ ctxDone = FALSE
    /\ stream \in Bodies
    /\ consumed = <<>>
    /\ spc = "check"
    /\ contentBuilder = ""
    /\ toolCallsMap = <<>>
    /\ responseID = ""
    /\ finalUsage = 0
    /\ emitted = <<>>
    /\ streamErr = ""
    /\ delivered = <<>>
    /\ cancelPoint = <<>>

\* The caller cancels the context (Ctrl+C) while the request runs.
StreamCancel ==
    /\ spc \in {"check", "read", "processed"}
    /\ ~ctxDone
    /\ ctxDone' = TRUE
    /\ cancelPoint' = <<[at |-> spc, unread |-> Len(stream)]>>
    /\ UNCHANGED <<stream, consumed, spc, contentBuilder, toolCallsMap,
                   responseID, finalUsage, emitted, streamErr, delivered>>

\* Process, lines 33-36, and WithStreamRetry, lines 151-153: the context is
\* looked at before a line is read.
StreamCheck ==
    /\ spc = "check"
    /\ IF ctxErr(ctxDone) # ""
       THEN /\ spc' = "returned"
            /\ streamErr' = "failed to process stream: " \o ctxErr(ctxDone)
       ELSE /\ spc' = "read"
            /\ UNCHANGED streamErr
    /\ UNCHANGED <<ctxDone, stream, consumed, contentBuilder, toolCallsMap,
                   responseID, finalUsage, emitted, delivered, cancelPoint>>

\* Process, lines 38-44: ReadString fails with an error other than io.EOF.
\* The body belongs to a request made with the context, so once the context
\* is cancelled the error is the context's.
StreamReadFails ==
    /\ spc = "read"
    /\ spc' = "returned"
    /\ streamErr' = "failed to process stream: " \o
                    (IF ctxDone THEN "context canceled" ELSE "unexpected EOF")
    /\ UNCHANGED <<ctxDone, stream, consumed, contentBuilder, toolCallsMap,
                   responseID, finalUsage, emitted, delivered, cancelPoint>>

\* Process, lines 38-42: the body is at its end.
StreamEOF ==
    /\ spc = "read"
    /\ stream = <<>>
    /\ spc' = "processed"
    /\ UNCHANGED <<ctxDone, stream, consumed, contentBuilder, toolCallsMap,
                   responseID, finalUsage, emitted, streamErr, delivered,
                   cancelPoint>>

\* Process, lines 38-101: a line is read and dealt with.
StreamLine ==
    /\ spc = "read"
    /\ stream # <<>>
    /\ stream' = Tail(stream)
    /\ consumed' = Append(consumed, Head(stream))
    /\ \E line \in {Head(stream)} :
       \E kind \in {lineKind(line)} :
          IF kind = "json" /\ line.doc # <<>>
          THEN \E chunk \in {line.doc[1]} :
               \E content \in {chunkContent(chunk)} :
                  /\ responseID' = IF chunk.ID # "" THEN chunk.ID ELSE responseID
                  /\ contentBuilder' = IF content # ""
                                       THEN writeString(contentBuilder, content)
                                       ELSE contentBuilder
                  /\ emitted' = IF content # "" THEN emit(emitted, content)
                                ELSE emitted
                  /\ toolCallsMap' = accumulateAll(toolCallsMap, chunkToolCalls(chunk))
                  /\ finalUsage' = IF chunk.Usage.TotalTokens > 0
                                   THEN chunk.Usage.TotalTokens ELSE finalUsage
                  /\ spc' = "check"
          ELSE /\ spc' = IF kind = "done" THEN "processed" ELSE "check"
               /\ UNCHANGED <<contentBuilder, toolCallsMap, responseID,
                              finalUsage, emitted>>
    /\ UNCHANGED <<ctxDone, streamErr, delivered, cancelPoint>>

\* WithStreamRetry, lines 155-159: Process returned nil, the response is
\* built and handed to onDone.
StreamDeliver ==
    /\ spc = "processed"
    /\ delivered' = <<BuildResponse>>
    /\ spc' = "returned"
    /\ UNCHANGED <<ctxDone, stream, consumed, contentBuilder, toolCallsMap,
                   responseID, finalUsage, emitted, streamErr, cancelPoint>>

StreamNext ==
    \/ StreamCancel /\ UNCHANGED <<sideVars, permVars, clsVars, agentVars, mtcVars, retryVars>>
    \/ StreamCheck /\ UNCHANGED <<sideVars, permVars, clsVars, agentVars, mtcVars, retryVars>>
    \/ StreamReadFails /\ UNCHANGED <<sideVars, permVars, clsVars, agentVars, mtcVars, retryVars>>
    \/ StreamEOF /\ UNCHANGED <<sideVars, permVars, clsVars, agentVars, mtcVars, retryVars>>
    \/ StreamLine /\ UNCHANGED <<sideVars, permVars, clsVars, agentVars, mtcVars, retryVars>>
    \/ StreamDeliver /\ UNCHANGED <<sideVars, permVars, clsVars, agentVars, mtcVars, retryVars>>

SpecStream == StreamInit /\ [][StreamNext]_vars

-----------------------------------------------------------------------------
(* Retry wrappers (package api) and key rotation (package config) *)

\* The most API keys a key rotator holds.
MaxKeys == 6

MaxRetryAttempts    == 5
InitialBackoff      == 100
MaxBackoff          == 2000
BackoffMultiplier   == 2
MaxAPIRetryAttempts == 3
APIInitialBackoff   == 500
APIMaxBackoff       == 5000

RetryableStatusCodes == {429, 503, 504, 502, 500}

RotatableErrorCodes == {401, 403, 429}

ShouldRotateKey(statusCode) == statusCode \in RotatableErrorCodes

\* Mutant of ShouldRetryAPICall: only rate limiting is retried.
ShouldRetryAPICall_RateLimitOnly(statusCode) == statusCode = 429

ShouldRetryAPICall(statusCode) == statusCode \in RetryableStatusCodes

\* The loop of CalculateBackoff and CalculateAPIBackoff, from step i on.
RECURSIVE backoffLoop(_, _, _, _)
backoffLoop(backoff, i, n, max) ==
    IF i >= n THEN backoff
    ELSE IF backoff * BackoffMultiplier > max THEN max
    ELSE backoffLoop(backoff * BackoffMultiplier, i + 1, n, max)

\* Backoff durations in milliseconds.
CalculateBackoff(n) == backoffLoop(InitialBackoff, 0, n, MaxBackoff)

CalculateAPIBackoff(n) == backoffLoop(APIInitialBackoff, 0, n, APIMaxBackoff)

\* What one invocation of the operation returns: a value, an *APIError with
\* a status code, or another error.
Succeeds        == [kind |-> "ok", status |-> 0]
APIError(code)  == [kind |-> "api", status |-> code]
OtherError      == [kind |-> "other", status |-> 0]

StatusCodes == {400, 401, 403, 429, 500, 502, 503, 504}

OperationOutcomes == {Succeeds, OtherError} \cup { APIError(code) : code \in StatusCodes }

\* What a wrapper returns.  how is "value" for the operation's result with a
\* nil error, "as-is" for the operation's error handed on unchanged,
\* "cancelled", "exceeded" and "no-keys" for the wrapper's own errors; cause
\* is <<the outcome returned or wrapped>>.
Returned(how, cause) == [how |-> how, cause |-> cause]

\* Mutant of isRetryable: every API error is retried.
isRetryable_AnyAPIError(pol, outcome) == outcome.kind = "api"

\* WithRetry, lines 105-113, and SearchWithRetry, lines 99-102: whether the
\* failure lets the loop go on.
isRetryable(pol, outcome) ==
    /\ outcome.kind = "api"
    /\ IF pol = "search" THEN ShouldRotateKey(outcome.status)
       ELSE ShouldRetryAPICall(outcome.status)

\* WithRetry, line 116, and SearchWithRetry, line 110: a backoff wait
\* follows the attempt unless it was the last one.
moreAttempts(n, max) == n < max - 1

MaxAttempts(pol) == IF pol = "search" THEN MaxRetryAttempts ELSE MaxAPIRetryAttempts

\* Mutant of selectBackoff: the wait is slept out.
selectBackoff_SleepThrough(done) == "elapsed"

\* The select of the backoff wait: ctx.Done() against time.After.
selectBackoff(done) == IF done THEN "cancelled" ELSE "elapsed"

\* Mutant of Rotate: past the last key the rotator goes back to the first.
Rotate_WrapsAround(count, idx) ==
    IF count <= 1 THEN <<>>
    ELSE <<(idx + 1) % count>>

\* KeyRotator.Rotate: <<>> for ErrNoAvailableKeys, else <<the next index>>.
Rotate(count, idx) ==
    IF count <= 1 THEN <<>>
    ELSE IF idx + 1 >= count THEN <<>>
    ELSE <<idx + 1>>

\* WithRetry, line 89, and SearchWithRetry, lines 78-83: a wrapper is called
\* with a live context.  A search client's rotator keeps its index from one
\* search to the next; with at most one key the loop is skipped.
RetryInit ==
    /\ globalFile = <<>>
    /\ projectFile = <<>>
    /\ global = DefaultSettings
    /\ project = <<>>
    /\ merged = DefaultSettings
    /\ sessionAllowed = {}
    /\ lastCheck = <<>>
    /\ lastOnce = <<>>
    /\ clsCmd = ""
    /\ clsRisk = "none"
    /\ NoSession
    /\ SideIdle
    /\ NoMatcherCall
    /\ NoStream
    /\ ctxDone = FALSE
    /\ policy \in {"api", "search"}
    /\ keyCount \in (IF policy = "api" THEN {0} ELSE 0..MaxKeys)
    /\ currentIdx \in (IF keyCount = 0 THEN {0} ELSE 0..(keyCount - 1))
    /\ rpc = (IF policy = "search" /\ keyCount <= 1 THEN "direct" ELSE "check")
    /\ attempt = 0
    /\ outcomes = <<>>
    /\ lastErr = <<>>
    /\ retResult = <<>>
    /\ slept = <<>>

\* The caller cancels the context while the wrapper runs.
RetryCancel ==
    /\ rpc \in {"direct", "check", "call", "backoff"}
    /\ ~ctxDone
    /\ ctxDone' = TRUE
    /\ UNCHANGED retryVars

\* WithRetry, lines 94-96, and SearchWithRetry, lines 88-90: the context is
\* looked at before an attempt.
RetryCheck ==
    /\ rpc = "check"
    /\ IF ctxErr(ctxDone) # ""
       THEN /\ rpc' = "returned"
            /\ retResult' = <<Returned("cancelled", <<>>)>>
       ELSE /\ rpc' = "call"
            /\ UNCHANGED retResult
    /\ UNCHANGED <<ctxDone, policy, attempt, outcomes, lastErr, slept, keyCount,
                   currentIdx>>

\* SearchWithRetry, lines 81-83: with at most one key the operation's result
\* is the wrapper's result.
RetryDirect(outcome) ==
    /\ rpc = "direct"
    /\ outcomes' = Append(outcomes, outcome)
    /\ rpc' = "returned"
    /\ retResult' = <<Returned(IF outcome.kind = "ok" THEN "value" ELSE "as-is",
                               <<outcome>>)>>
    /\ UNCHANGED <<ctxDone, policy, attempt, lastErr, slept, keyCount, currentIdx>>

\* Mutant of loopGoesOn: the loop ends one attempt early.
loopGoesOn_OneShort(n, max) == n < max - 1

\* WithRetry, line 92, and SearchWithRetry, line 86: the loop condition.
loopGoesOn(n, max) == n < max

\* WithRetry, lines 98-122, SearchWithRetry, lines 92-116, and
\* WithStreamRetry, lines 145-181: an attempt up to its return, its backoff
\* wait or, for a streaming request, the start of stream processing.
RetryCall(outcome) ==
    /\ rpc = "call"
    /\ outcomes' = Append(outcomes, outcome)
    /\ IF outcome.kind = "ok"
       THEN /\ IF policy = "stream"
               THEN /\ rpc' = "streaming"
                    /\ UNCHANGED retResult
               ELSE /\ rpc' = "returned"
                    /\ retResult' = <<Returned("value", <<outcome>>)>>
            /\ UNCHANGED <<attempt, lastErr, currentIdx>>
       ELSE /\ lastErr' = <<outcome>>
            /\ IF ~isRetryable(policy, outcome)
               THEN /\ rpc' = "returned"
                    /\ retResult' = <<Returned("as-is", <<outcome>>)>>
                    /\ UNCHANGED <<attempt, currentIdx>>
               ELSE IF policy = "search" /\ Rotate(keyCount, currentIdx) = <<>>
               THEN /\ rpc' = "returned"
                    /\ retResult' = <<Returned("no-keys", <<outcome>>)>>
                    /\ UNCHANGED <<attempt, currentIdx>>
               ELSE /\ currentIdx' = (IF policy = "search"
                                      THEN Rotate(keyCount, currentIdx)[1]
                                      ELSE currentIdx)
                    /\ IF moreAttempts(attempt, MaxAttempts(policy))
                       THEN /\ rpc' = "backoff"
                            /\ UNCHANGED <<attempt, retResult>>
                       ELSE /\ attempt' = attempt + 1
                            /\ IF loopGoesOn(attempt + 1, MaxAttempts(policy))
                               THEN /\ rpc' = "check"
                                    /\ UNCHANGED retResult
                               ELSE /\ rpc' = "returned"
                                    /\ retResult' = <<Returned("exceeded", <<outcome>>)>>
    /\ UNCHANGED <<ctxDone, policy, slept, keyCount>>

\* WithRetry, lines 117-121, and SearchWithRetry, lines 111-115: the backoff
\* wait ends by the timer or by the context.
RetryBackoff ==
    /\ rpc = "backoff"
    /\ IF selectBackoff(ctxDone) = "cancelled"
       THEN /\ rpc' = "returned"
            /\ retResult' = <<Returned("cancelled", <<>>)>>
            /\ UNCHANGED <<attempt, slept>>
       ELSE /\ slept' = Append(slept, IF policy = "search"
                                      THEN CalculateBackoff(attempt)
                                      ELSE CalculateAPIBackoff(attempt))
            /\ attempt' = attempt + 1
            /\ IF loopGoesOn(attempt + 1, MaxAttempts(policy))
               THEN /\ rpc' = "check"
                    /\ UNCHANGED retResult
               ELSE /\ rpc' = "returned"
                    /\ retResult' = <<Returned("exceeded", lastErr)>>
    /\ UNCHANGED <<ctxDone, policy, outcomes, lastErr, keyCount, currentIdx>>

RetryNext ==
    \/ RetryCancel /\ UNCHANGED <<sideVars, permVars, clsVars, agentVars, mtcVars, streamVars>>
    \/ RetryCheck /\ UNCHANGED <<sideVars, permVars, clsVars, agentVars, mtcVars, streamVars>>
    \/ \E outcome \in OperationOutcomes :
           RetryDirect(outcome) /\ UNCHANGED <<sideVars, permVars, clsVars, agentVars, mtcVars, streamVars>>
    \/ \E outcome \in OperationOutcomes :
           RetryCall(outcome) /\ UNCHANGED <<sideVars, permVars, clsVars, agentVars, mtcVars, streamVars>>
    \/ RetryBackoff /\ UNCHANGED <<sideVars, permVars, clsVars, agentVars, mtcVars, streamVars>>

SpecRetry == RetryInit /\ [][RetryNext]_vars

\* NewKeyRotator, lines 239-248, and SearchWithRetry, lines 78-83: a search
\* client whose rotator was just built, at its first search.
SearchesInit ==
    /\ globalFile = <<>>
    /\ projectFile = <<>>
    /\ global = DefaultSettings
    /\ project = <<>>
    /\ merged = DefaultSettings
    /\ sessionAllowed = {}
    /\ lastCheck = <<>>
    /\ lastOnce = <<>>
    /\ clsCmd = ""
    /\ clsRisk = "none"
    /\ NoSession
    /\ SideIdle
    /\ NoMatcherCall
    /\ NoStream
    /\ ctxDone = FALSE
    /\ policy = "search"
    /\ keyCount \in 0..MaxKeys
    /\ currentIdx = 0
    /\ rpc = (IF keyCount <= 1 THEN "direct" ELSE "check")
    /\ attempt = 0
    /\ outcomes = <<>>
    /\ lastErr = <<>>
    /\ retResult = <<>>
    /\ slept = <<>>

\* SearchWithRetry, lines 72-86: the next search on the same client, with a
\* live context of its own; the loop's locals start afresh, the rotator is
\* the one the previous search left.
SearchAgain ==
    /\ rpc = "returned"
    /\ policy = "search"
    /\ ctxDone' = FALSE
    /\ rpc' = (IF keyCount <= 1 THEN "direct" ELSE "check")
    /\ attempt' = 0
    /\ outcomes' = <<>>
    /\ lastErr' = <<>>
    /\ retResult' = <<>>
    /\ slept' = <<>>
    /\ UNCHANGED <<policy, keyCount, currentIdx>>

SearchesNext ==
    \/ RetryNext
    \/ SearchAgain /\ UNCHANGED <<sideVars, permVars, clsVars, agentVars, mtcVars, streamVars>>

SpecSearches == SearchesInit /\ [][SearchesNext]_vars

-----------------------------------------------------------------------------
(* A streaming request: WithStreamRetry with the stream it opens *)

\* The bodies a connection opened by WithStreamRetry delivers.
RetryBodies == { body \in Bodies : Len(body) <= 1 }

\* WithStreamRetry, line 137: the wrapper is called with a live context.
StreamRetryInit ==
    /\ globalFile = <<>>
    /\ projectFile = <<>>
    /\ global = DefaultSettings
    /\ project = <<>>
    /\ merged = DefaultSettings
    /\ sessionAllowed = {}
    /\ lastCheck = <<>>
    /\ lastOnce = <<>>
    /\ clsCmd = ""
    /\ clsRisk = "none"
    /\ NoSession
    /\ SideIdle
    /\ NoMatcherCall
    /\ NoStream
    /\ ctxDone = FALSE
    /\ policy = "stream"
    /\ keyCount = 0
    /\ currentIdx = 0
    /\ rpc = "check"
    /\ attempt = 0
    /\ outcomes = <<>>
    /\ lastErr = <<>>
    /\ retResult = <<>>
    /\ slept = <<>>

\* WithStreamRetry, line 149: a processor is made for the body of the
\* response the opening operation returned.
StreamBegin ==
    /\ rpc = "streaming"
    /\ spc = "off"
    /\ stream' \in RetryBodies
    /\ spc' = "check"
    /\ UNCHANGED <<ctxDone, consumed, contentBuilder, toolCallsMap, responseID,
                   finalUsage, emitted, streamErr, delivered, cancelPoint>>

\* Mutant of afterProcess: a stream that ended with an error is opened again.
afterProcess_Retry(err) == IF err # "" THEN "continue" ELSE "return"

\* WithStreamRetry, lines 150-158: whatever Process returned, the wrapper
\* returns.
afterProcess(err) == "return"

\* WithStreamRetry, lines 150-158: stream processing is over.
StreamReturn ==
    /\ rpc = "streaming"
    /\ spc = "returned"
    /\ IF afterProcess(streamErr) = "return"
       THEN /\ rpc' = "returned"
            /\ retResult' = <<Returned(IF streamErr = "" THEN "value"
                                       ELSE "stream-error", <<>>)>>
            /\ UNCHANGED <<attempt, streamVars>>
       ELSE /\ attempt' = attempt + 1
            /\ IF loopGoesOn(attempt + 1, MaxAttempts(policy))
               THEN /\ rpc' = "check"
                    /\ UNCHANGED retResult
               ELSE /\ rpc' = "returned"
                    /\ retResult' = <<Returned("exceeded", lastErr)>>
            /\ stream' = <<>>
            /\ consumed' = <<>>
            /\ spc' = "off"
            /\ contentBuilder' = ""
            /\ toolCallsMap' = <<>>
            /\ responseID' = ""
            /\ finalUsage' = 0
            /\ streamErr' = ""
            /\ UNCHANGED <<emitted, delivered, cancelPoint>>
    /\ UNCHANGED <<ctxDone, policy, outcomes, lastErr, slept, keyCount, currentIdx>>

StreamRetryNext ==
    \/ RetryCancel /\ UNCHANGED <<sideVars, permVars, clsVars, agentVars, mtcVars, streamVars>>
    \/ RetryCheck /\ UNCHANGED <<sideVars, permVars, clsVars, agentVars, mtcVars, streamVars>>
    \/ \E outcome \in OperationOutcomes :
           RetryCall(outcome) /\ UNCHANGED <<sideVars, permVars, clsVars, agentVars, mtcVars, streamVars>>
    \/ RetryBackoff /\ UNCHANGED <<sideVars, permVars, clsVars, agentVars, mtcVars, streamVars>>
    \/ StreamBegin /\ UNCHANGED <<sideVars, permVars, clsVars, agentVars, mtcVars, retryVars>>
    \/ StreamCancel /\ UNCHANGED <<sideVars, permVars, clsVars, agentVars, mtcVars, retryVars>>
    \/ StreamCheck /\ UNCHANGED <<sideVars, permVars, clsVars, agentVars, mtcVars, retryVars>>
    \/ StreamReadFails /\ UNCHANGED <<sideVars, permVars, clsVars, agentVars, mtcVars, retryVars>>
    \/ StreamEOF /\ UNCHANGED <<sideVars, permVars, clsVars, agentVars, mtcVars, retryVars>>
    \/ StreamLine /\ UNCHANGED <<sideVars, permVars, clsVars, agentVars, mtcVars, retryVars>>
    \/ StreamDeliver /\ UNCHANGED <<sideVars, permVars, clsVars, agentVars, mtcVars, retryVars>>
    \/ StreamReturn /\ UNCHANGED <<sideVars, permVars, clsVars, agentVars, mtcVars>>

SpecStreamRetry == StreamRetryInit /\ [][StreamRetryNext]_vars

-----------------------------------------------------------------------------
(* The Copilot token manager (package auth) *)

\* The clock advances in ticks of TickSeconds.
TickSeconds == 30

\* How often, taken together, the clock ticks and the credential endpoint
\* fails or hands out a token that is already within the buffer of its
\* expiry.
MaxEvents == 1

\* The buffer before expiry within which a token counts as expired.
RefreshBuffer == 60

\* The background goroutine of StartAutoRefresh, and two foreground
\* goroutines that call GetCopilotToken: the callers are alike, and two of
\* them contend with each other as any number would.
Background == 0
Callers    == {1, 2}
Goroutines == {Background} \cup Callers

\* No goroutine holds the writer's side of the lock.
Nobody == 0 - 1

\* sync.RWMutex: w is the goroutine that has announced a write lock (it
\* holds the lock once the readers have left), readers the goroutines inside
\* a read lock, blocked those whose RLock waits for the writer's Unlock.
RWMutex == [w |-> Nobody, readers |-> {}, blocked |-> {}]

\* RWMutex.RLock: behind an announced writer the reader blocks.
RLock(m, self) ==
    IF m.w = Nobody THEN [m EXCEPT !.readers = @ \cup {self}]
    ELSE [m EXCEPT !.blocked = @ \cup {self}]

\* Mutant of RUnlock: the reader stays registered.
RUnlock_Leaks(m, self) == m

\* RWMutex.RUnlock.
RUnlock(m, self) == [m EXCEPT !.readers = @ \ {self}]

\* RWMutex.Unlock: the readers blocked behind the writer are let in.
Unlock(m) == [w |-> Nobody, readers |-> m.blocked, blocked |-> {}]

\* Mutant of IsValid: the token counts as valid up to its expiry.
IsValid_NoBuffer(token, expires, t) == token # 0 /\ t < expires

\* GetCopilotToken, line 236: token != "" and now + 60 s is before expiry.
\* Token 0 is the empty string.
IsValid(token, expires, t) == token # 0 /\ t + RefreshBuffer < expires

\* Mutant of doubleCheck: the write-lock holder always asks the endpoint.
doubleCheck_Skipped(token, expires, t) == FALSE

\* refreshToken, line 250: the same test again, under the write lock.
doubleCheck(token, expires, t) == token # 0 /\ t + RefreshBuffer < expires

\* Mutant of refreshIn: the wait is for the expiry itself.
refreshIn_UntilExpiry(expires, t) ==
    IF expires = 0 THEN 0 ELSE IF expires - t < 0 THEN 0 ELSE expires - t

\* StartAutoRefresh, lines 316-325: how long the timer runs.  Expiry 0 is
\* the zero time.
refreshIn(expires, t) ==
    IF expires = 0 THEN 0
    ELSE IF expires - t - RefreshBuffer < 0 THEN 0
    ELSE expires - t - RefreshBuffer

\* What the credential endpoint answers: a failure (life 0) or a token that
\* lives for life seconds.
Answers == {0, RefreshBuffer, RefreshBuffer + TickSeconds}

BadAnswer(life) == life <= RefreshBuffer

\* The locals of a goroutine: pc, the token and expiry it copied under the
\* read lock, the time of its validity check, the end of the timer, the
\* number of requests it sent, and <<what GetCopilotToken returned>>.
Goroutine(at) ==
    [pc |-> at, token |-> 0, expiresAt |-> 0, checkedAt |-> 0, deadline |-> 0,
     own |-> 0, ret |-> <<>>]

\* The ticks of the clock and the bad answers of the endpoint so far.
Events == (now \div TickSeconds) + tlog.bad

\* No request has been sent yet.
NoRequests == [n |-> 0, bad |-> 0, by |-> Nobody]

\* NewClient, lines 73-76: NewTokenManager, then StartAutoRefresh with a
\* context of its own.
TokenInit ==
    /\ globalFile = <<>>
    /\ projectFile = <<>>
    /\ global = DefaultSettings
    /\ project = <<>>
    /\ merged = DefaultSettings
    /\ sessionAllowed = {}
    /\ lastCheck = <<>>
    /\ lastOnce = <<>>
    /\ clsCmd = ""
    /\ clsRisk = "none"
    /\ NoSession
    /\ NoMatcherCall
    /\ NoStream
    /\ NoRetry
    /\ ctxDone = FALSE
    /\ tm = [copilotToken |-> 0, expiresAt |-> 0, cancelRefresh |-> TRUE]
    /\ mu = RWMutex
    /\ procs = [self \in Goroutines |->
                   Goroutine(IF self = Background THEN "loop" ELSE "idle")]
    /\ now = 0
    /\ tlog = NoRequests
    /\ session = <<>>
    /\ fs = <<>>
    /\ sm = <<>>

\* GetCopilotToken, line 230, and StartAutoRefresh, line 311: RLock.  The
\* callers are alike, so they are let in in the order of their numbers.
TokenRLock(self) ==
    /\ procs[self].pc = (IF self = Background THEN "loop" ELSE "idle")
    /\ mu' = RLock(mu, self)
    /\ self \in Callers \ {1} => procs[self - 1].pc # "idle"
    /\ procs' = [procs EXCEPT ![self].pc = "rlock"]
    /\ UNCHANGED <<ctxDone, tm, now, tlog>>

\* GetCopilotToken, lines 231-233, and StartAutoRefresh, lines 312-325: the
\* fields are copied and the read lock is released; the background
\* goroutine sets its timer.
TokenRead(self) ==
    /\ procs[self].pc = "rlock"
    /\ self \in mu.readers
    /\ mu' = RUnlock(mu, self)
    /\ procs' = [procs EXCEPT
                   ![self].pc = IF self = Background THEN "select" ELSE "check",
                   ![self].token = IF self = Background THEN 0 ELSE tm.copilotToken,
                   ![self].expiresAt = IF self = Background THEN 0 ELSE tm.expiresAt,
                   ![self].deadline = IF self = Background
                                      THEN now + refreshIn(tm.expiresAt, now)
                                      ELSE 0]
    /\ UNCHANGED <<ctxDone, tm, now, tlog>>

\* GetCopilotToken, lines 236-241: the cached token is returned, or
\* refreshToken is called.
TokenCheck(self) ==
    /\ self \in Callers
    /\ procs[self].pc = "check"
    /\ IF IsValid(procs[self].token, procs[self].expiresAt, now)
       THEN procs' = [procs EXCEPT ![self].pc = "done",
                                   ![self].checkedAt = now,
                                   ![self].ret = <<[token |-> procs[self].token,
                                                    err |-> ""]>>]
       ELSE procs' = [procs EXCEPT ![self].pc = "lock",
                                   ![self].checkedAt = now]
    /\ UNCHANGED <<ctxDone, tm, mu, now, tlog>>

\* StartAutoRefresh, lines 327-331: the timer ends and refreshToken is
\* called.
TimerFires ==
    /\ procs[Background].pc = "select"
    /\ now >= procs[Background].deadline
    /\ procs' = [procs EXCEPT ![Background].pc = "lock"]
    /\ UNCHANGED <<ctxDone, tm, mu, now, tlog>>

\* StartAutoRefresh, lines 328-329: the context is done and the goroutine
\* returns.
RefreshLoopExits ==
    /\ procs[Background].pc = "select"
    /\ ctxDone
    /\ procs' = [procs EXCEPT ![Background].pc = "stopped"]
    /\ UNCHANGED <<ctxDone, tm, mu, now, tlog>>

\* refreshToken, line 246: Lock announces the writer, who then waits for
\* the readers to leave.
TokenLock(self) ==
    /\ procs[self].pc = "lock"
    /\ mu.w = Nobody
    /\ mu' = [mu EXCEPT !.w = self]
    /\ procs' = [procs EXCEPT ![self].pc = "drain"]
    /\ UNCHANGED <<ctxDone, tm, now, tlog>>

\* Mutant of afterRefresh: the background goroutine returns on an error.
afterRefresh_StopsOnError(self, token) ==
    IF self = Background THEN (IF token = 0 THEN "stopped" ELSE "loop")
    ELSE "done"

\* Where a goroutine is after refreshToken has returned token, or token 0
\* with an error.  StartAutoRefresh, lines 331-337: the background
\* goroutine goes round its loop either way.
afterRefresh(self, token) == IF self = Background THEN "loop" ELSE "done"

\* What refreshToken returns: the token, or token 0 with an error.  The
\* background goroutine drops the token and keeps the error.
returns(self, token) ==
    <<[token |-> IF self = Background THEN 0 ELSE token,
       err |-> IF token = 0 THEN "failed to get Copilot token" ELSE ""]>>

\* refreshToken, lines 247-267: with the write lock held the token is
\* looked at again; a token still valid is returned, otherwise the request
\* is sent.  A request under a cancelled context fails without being sent.
TokenDoubleCheck(self) ==
    /\ procs[self].pc = "drain"
    /\ mu.w = self
    /\ mu.readers = {}
    /\ IF doubleCheck(tm.copilotToken, tm.expiresAt, now)
       THEN /\ procs' = [procs EXCEPT ![self].pc = afterRefresh(self, tm.copilotToken),
                                      ![self].ret = returns(self, tm.copilotToken)]
            /\ mu' = Unlock(mu)
            /\ UNCHANGED tlog
       ELSE IF self = Background /\ ctxDone
       THEN /\ procs' = [procs EXCEPT ![self].pc = afterRefresh(self, 0),
                                      ![self].ret = returns(self, 0)]
            /\ mu' = Unlock(mu)
            /\ UNCHANGED tlog
       ELSE /\ procs' = [procs EXCEPT ![self].pc = "request",
                                      ![self].own = @ + 1]
            /\ tlog' = [tlog EXCEPT !.n = @ + 1, !.by = self]
            /\ UNCHANGED mu
    /\ UNCHANGED <<ctxDone, tm, now>>

\* refreshToken, lines 267-296: the endpoint has answered, or the request
\* has failed; the deferred Unlock runs.
TokenResponse(self, life) ==
    /\ procs[self].pc = "request"
    /\ BadAnswer(life) => Events < MaxEvents
    /\ tlog' = [tlog EXCEPT !.bad = IF BadAnswer(life) THEN @ + 1 ELSE @]
    /\ IF life = 0
       THEN /\ procs' = [procs EXCEPT ![self].pc = afterRefresh(self, 0),
                                      ![self].ret = returns(self, 0)]
            /\ UNCHANGED tm
       ELSE /\ tm' = [tm EXCEPT !.copilotToken = tlog.n,
                                !.expiresAt = now + life]
            /\ procs' = [procs EXCEPT ![self].pc = afterRefresh(self, tlog.n),
                                      ![self].ret = returns(self, tlog.n)]
    /\ mu' = Unlock(mu)
    /\ UNCHANGED <<ctxDone, now>>

\* TokenManager.StopAutoRefresh.
StopAutoRefresh ==
    /\ tm.cancelRefresh
    /\ ctxDone' = TRUE
    /\ tm' = [tm EXCEPT !.cancelRefresh = FALSE]
    /\ UNCHANGED <<mu, procs, now, tlog>>

\* CopilotClient.Close: the client stops its token manager's refresh task.
Close == StopAutoRefresh

\* Time passes.
Tick ==
    /\ Events < MaxEvents
    /\ now' = now + TickSeconds
    /\ UNCHANGED <<ctxDone, tm, mu, procs, tlog>>

\* The token manager's steps leave the rest of the program alone.
TokenOnly ==
    UNCHANGED <<permVars, clsVars, agentVars, mtcVars, streamVars, retryVars,
                session, fs, sm>>

TokenNext ==
    \/ \E self \in Goroutines :
           TokenRLock(self) /\ TokenOnly
    \/ \E self \in Goroutines :
           TokenRead(self) /\ TokenOnly
    \/ \E self \in Callers :
           TokenCheck(self) /\ TokenOnly
    \/ TimerFires /\ TokenOnly
    \/ RefreshLoopExits /\ TokenOnly
    \/ \E self \in Goroutines :
           TokenLock(self) /\ TokenOnly
    \/ \E self \in Goroutines :
           TokenDoubleCheck(self) /\ TokenOnly
    \/ \E self \in Goroutines, life \in Answers :
           TokenResponse(self, life) /\ TokenOnly
    \/ Close /\ TokenOnly
    \/ Tick /\ TokenOnly

SpecToken == TokenInit /\ [][TokenNext]_vars

\* The steps a goroutine takes on its own, once it has called.
TokenStep(self) ==
    \/ TokenRead(self)
    \/ TokenCheck(self)
    \/ self = Background /\ (TokenRLock(self) \/ TimerFires)
    \/ TokenLock(self)
    \/ TokenDoubleCheck(self)
    \/ \E life \in Answers : TokenResponse(self, life)

\* The scheduler runs every goroutine that stays able to take a step, and
\* every request to the credential endpoint returns.  select picks at random
\* among the cases that are ready, so a loop that finds its context done
\* again and again returns.  Nothing obliges a caller to call, the clock to
\* tick or the client to be closed.
TokenFairness ==
    /\ \A self \in Goroutines : WF_vars(TokenStep(self) /\ TokenOnly)
    /\ SF_vars(RefreshLoopExits /\ TokenOnly)

SpecTokenFair == TokenInit /\ [][TokenNext]_vars /\ TokenFairness

-----------------------------------------------------------------------------
(* The interactive session and its clients (package cmd, package api) *)

\* How many clients one session creates at most.
MaxClients == 5

Providers == {"copilot", "azure"}

\* api.NewClient: a Copilot client comes with a token manager whose refresh
\* goroutine has been started; an Azure client has none.
NewClient(provider) ==
    [provider |-> provider,
     refresh  |-> IF provider = "copilot" THEN "running" ELSE "none"]

\* AIClient.Close: the Copilot client stops its token manager's refresh
\* task (StopAutoRefresh cancels the context once); AzureClient.Close does
\* nothing.
ClientClose(c) ==
    IF c.provider = "copilot" /\ c.refresh = "running"
    THEN [c EXCEPT !.refresh = "cancelled"]
    ELSE c

\* runInteractive, lines 190-196: the client is created and its Close is
\* deferred; the deferred call is bound to the client as it is then.
SessionInit ==
    /\ globalFile = <<>>
    /\ projectFile = <<>>
    /\ global = DefaultSettings
    /\ project = <<>>
    /\ merged = DefaultSettings
    /\ sessionAllowed = {}
    /\ lastCheck = <<>>
    /\ lastOnce = <<>>
    /\ clsCmd = ""
    /\ clsRisk = "none"
    /\ NoSession
    /\ NoMatcherCall
    /\ NoStream
    /\ NoRetry
    /\ ctxDone = FALSE
    /\ NoToken
    /\ fs = <<>>
    /\ sm = <<>>
    /\ \E provider \in Providers :
           session = [clients  |-> <<NewClient(provider)>>,
                      client   |-> 1,
                      deferred |-> 1,
                      returned |-> FALSE]

\* handleProviderCommand, lines 223-231: the new client is created, the old
\* one is closed, and the session's client becomes the new one.
handleProviderCommand(provider) ==
    /\ ~session.returned
    /\ Len(session.clients) < MaxClients
    /\ session' = [session EXCEPT
                      !.clients = Append([@ EXCEPT ![session.client] = ClientClose(@)],
                                         NewClient(provider)),
                      !.client = Len(session.clients) + 1]

\* StartAutoRefresh, lines 328-329: the goroutine of a client that was
\* closed finds its context done and returns.
RefreshTaskExits(i) ==
    /\ session.clients[i].refresh = "cancelled"
    /\ session' = [session EXCEPT !.clients[i].refresh = "stopped"]

\* runInteractive returns, and the deferred Close of line 196 runs.
runInteractiveReturns ==
    /\ ~session.returned
    /\ session' = [session EXCEPT
                      !.clients[session.deferred] = ClientClose(@),
                      !.returned = TRUE]

SessionOnly ==
    UNCHANGED <<permVars, clsVars, agentVars, mtcVars, ctxDone, streamVars,
                retryVars, tokenVars, fs, sm>>

SessionNext ==
    \/ \E provider \in Providers : handleProviderCommand(provider) /\ SessionOnly
    \/ \E i \in 1..Len(session.clients) : RefreshTaskExits(i) /\ SessionOnly
    \/ runInteractiveReturns /\ SessionOnly

SpecSession == SessionInit /\ [][SessionNext]_vars

-----------------------------------------------------------------------------
(* One turn of the agent loop, for as long as it runs *)

\* What the model endpoint may answer: content, and tool calls or none.
Responses ==
    [content : {"", "answer"}, toolCalls : ToolCallLists \cup {<<>>}]

\* Mutant of respHasToolCalls: every response is taken to carry tool calls.
respHasToolCalls_Always(resp) == TRUE

\* sendInteractiveMessageWithTools, line 523: len(resp.Choices) > 0 and
\* Choice.HasToolCalls, which is len(Message.ToolCalls) > 0.
respHasToolCalls(resp) == resp.toolCalls # <<>>

\* How many messages of the conversation are kept from before a response.
MaxHistory == 1

\* The loop never reads the conversation it appends to, so of a
\* conversation longer than n only the last n messages are kept.
Window(msgs, n) ==
    IF Len(msgs) <= n THEN msgs ELSE SubSeq(msgs, Len(msgs) - n + 1, Len(msgs))

\* executor, line 342, and sendInteractiveMessageWithTools, line 462: the
\* user's input is in the conversation and the first request is about to be
\* made.
LoopInit ==
    /\ globalFile = <<>>
    /\ projectFile = <<>>
    /\ global = DefaultSettings
    /\ project = <<>>
    /\ merged = DefaultSettings
    /\ sessionAllowed = {}
    /\ lastCheck = <<>>
    /\ lastOnce = <<>>
    /\ clsCmd = ""
    /\ clsRisk = "none"
    /\ messages = Append(NewConversation, UserMessage("input"))
    /\ pc = "request"
    /\ pending = <<>>
    /\ turnStart = NewConversation
    /\ turnEnd = "none"
    /\ sent = <<>>
    /\ lastExec = <<>>
    /\ ApiIdle

\* sendInteractiveMessageWithTools, lines 514-564: the model's response has
\* come.  With tool calls the assistant message joins the conversation and
\* the calls are processed in order, after which the loop goes round; with
\* none the content is returned, and executor stores it unless empty.
LoopResponse(resp) ==
    /\ pc = "request"
    /\ sent' = Window(messages, MaxHistory)
    /\ IF respHasToolCalls(resp)
       THEN /\ messages' = Append(Window(messages, MaxHistory),
                                  Message("assistant", resp.content,
                                          resp.toolCalls, ""))
            /\ pending' = resp.toolCalls
            /\ pc' = IF resp.toolCalls = <<>> THEN "request" ELSE "tools"
            /\ UNCHANGED turnEnd
       ELSE /\ messages' = IF resp.content # ""
                           THEN Append(Window(messages, MaxHistory),
                                       AssistantMessage(resp.content))
                           ELSE Window(messages, MaxHistory)
            /\ pc' = "idle"
            /\ turnEnd' = "answer"
            /\ UNCHANGED pending
    /\ UNCHANGED <<turnStart, lastExec>>

LoopRequestReturns ==
    \/ \E resp \in Responses :
           LoopResponse(resp) /\ UNCHANGED <<permVars, clsVars, apiVars>>
    \/ \E how \in {"cancelled", "error"} :
           RequestFails(how) /\ UNCHANGED <<permVars, clsVars, apiVars>>

LoopToolReturns ==
    \E choice \in Approvals, outcome \in ExecOutcomes :
        ProcessToolCall(choice, outcome) /\ UNCHANGED <<clsVars, apiVars>>

LoopNext == LoopRequestReturns \/ LoopToolReturns

\* Every request to the model endpoint returns, with a response or with an
\* error, and every tool call returns: commands and file searches run under
\* a timeout.  Nothing obliges the model to answer without tool calls.
SpecLoop ==
    /\ LoopInit
    /\ [][LoopNext]_vars
    /\ WF_vars(LoopRequestReturns)
    /\ WF_vars(LoopToolReturns)

-----------------------------------------------------------------------------
(* File tools (package executor) and their handlers (package cmd) *)

\* A path is the sequence of its components below the root; every path
\* the tools are given here is absolute.
RECURSIVE cleanFrom(_, _)
cleanFrom(done, rest) ==
    IF rest = <<>> THEN done
    ELSE IF Head(rest) = ".."
    THEN cleanFrom(IF done = <<>> THEN <<>> ELSE SubSeq(done, 1, Len(done) - 1),
                   Tail(rest))
    ELSE cleanFrom(Append(done, Head(rest)), Tail(rest))

\* filepath.Abs of an absolute path: filepath.Clean.
Abs(path) == cleanFrom(<<>>, path)

\* filepath.Dir and filepath.Base of a cleaned path below the root.
Dir(path)  == SubSeq(path, 1, Len(path) - 1)
Base(path) == path[Len(path)]

\* The path as the string the prefix test reads.
RECURSIVE joinPath(_)
joinPath(path) ==
    IF path = <<>> THEN "" ELSE "/" \o Head(path) \o joinPath(Tail(path))

PathString(path) == IF path = <<>> THEN "/" ELSE joinPath(path)

\* The entries of a file system: directories, files with their content,
\* and symbolic links to directories.
DirNode          == [kind |-> "dir", target |-> <<>>, content |-> ""]
FileNode(text)   == [kind |-> "file", target |-> <<>>, content |-> text]
LinkNode(target) == [kind |-> "link", target |-> target, content |-> ""]

\* filepath.EvalSymlinks: <<the path with every link followed>>, or <<>>
\* when a component does not exist or a file stands where a directory is
\* needed.
RECURSIVE evalFrom(_, _, _)
evalFrom(nodes, at, rest) ==
    IF rest = <<>> THEN <<at>>
    ELSE LET next == Append(at, Head(rest))
         IN  IF next \notin DOMAIN nodes THEN <<>>
             ELSE IF nodes[next].kind = "link"
             THEN evalFrom(nodes, nodes[next].target, Tail(rest))
             ELSE IF nodes[next].kind = "file" /\ Tail(rest) # <<>> THEN <<>>
             ELSE evalFrom(nodes, next, Tail(rest))

EvalSymlinks(nodes, path) == evalFrom(nodes, <<>>, path)

\* file_tools.go, lines 24-28.
blockedPaths ==
    <<"/etc/", "/usr/", "/bin/", "/sbin/", "/boot/", "/sys/", "/proc/", "/dev/",
      "/var/", "/lib/", "/System/", "/Library/">>

\* Mutant of checkedPath: the path is tested as it was given.
checkedPath_Unresolved(nodes, path) == Abs(path)

\* IsPathSafe, lines 40-54: the path that is tested against blockedPaths is
\* the resolved one; for a file that does not exist its directory is
\* resolved, and when that fails too the path stays as it is.
checkedPath(nodes, path) ==
    LET abs         == Abs(path)
        resolved    == EvalSymlinks(nodes, abs)
        resolvedDir == EvalSymlinks(nodes, Dir(abs))
    IN  IF resolved # <<>> THEN resolved[1]
        ELSE IF resolvedDir # <<>> THEN Append(resolvedDir[1], Base(abs))
        ELSE abs

\* The entries of blockedPaths that s, or s without "/private", begins with.
BlockedBy(s) ==
    { k \in 1..Len(blockedPaths) :
        \/ HasPrefix(s, blockedPaths[k])
        \/ HasPrefix(s, "/private" \o blockedPaths[k]) }

\* IsPathSafe, lines 56-68.
IsPathSafe(nodes, path) ==
    LET hits == BlockedBy(PathString(checkedPath(nodes, path)))
    IN  IF hits = {} THEN [safe |-> TRUE, reason |-> ""]
        ELSE [safe |-> FALSE,
              reason |-> "path "
                         \o blockedPaths[CHOOSE k \in hits : \A j \in hits : k <= j]
                         \o " is protected"]

\* What a file tool hands back: its output and the file system it leaves.
FileToolResult(output, nodes) == [Output |-> output, nodes |-> nodes]

\* os.MkdirAll: the missing directories are made, links being followed;
\* <<the file system, the directory's real path>>, or <<>> when a file is in
\* the way.
RECURSIVE mkdirFrom(_, _, _)
mkdirFrom(nodes, at, rest) ==
    IF rest = <<>> THEN <<nodes, at>>
    ELSE LET next == Append(at, Head(rest))
         IN  IF next \notin DOMAIN nodes
             THEN mkdirFrom([p \in DOMAIN nodes \cup {next} |->
                                IF p = next THEN DirNode ELSE nodes[p]],
                            next, Tail(rest))
             ELSE IF nodes[next].kind = "link"
             THEN mkdirFrom(nodes, nodes[next].target, Tail(rest))
             ELSE IF nodes[next].kind = "file" THEN <<>>
             ELSE mkdirFrom(nodes, next, Tail(rest))

MkdirAll(nodes, dir) == mkdirFrom(nodes, <<>>, dir)

\* The file system with file at path holding text.
WithFile(nodes, path, text) ==
    [p \in DOMAIN nodes \cup {path} |-> IF p = path THEN FileNode(text) ELSE nodes[p]]

\* executor.ReadFile, lines 73-108: no safety check.
ReadFile(nodes, path) ==
    LET real == EvalSymlinks(nodes, Abs(path))
    IN  IF real = <<>> THEN FileToolResult("Error: file not found", nodes)
        ELSE IF nodes[real[1]].kind = "dir"
        THEN FileToolResult("Error: is a directory, use list_directory instead", nodes)
        ELSE FileToolResult(nodes[real[1]].content, nodes)

\* executor.WriteFile, lines 112-136.
WriteFile(nodes, path, content) ==
    LET check == IsPathSafe(nodes, path)
        abs   == Abs(path)
        made  == MkdirAll(nodes, Dir(abs))
        real  == Append(made[2], Base(abs))
    IN  IF ~check.safe THEN FileToolResult("Blocked: " \o check.reason, nodes)
        ELSE IF made = <<>> THEN FileToolResult("Error creating directory", nodes)
        ELSE IF real \in DOMAIN made[1] /\ made[1][real].kind # "file"
        THEN FileToolResult("Error: is a directory", made[1])
        ELSE FileToolResult("Wrote bytes", WithFile(made[1], real, content))

\* executor.EditFile, lines 140-181: the first "old" becomes "new".
EditFile(nodes, path) ==
    LET check == IsPathSafe(nodes, path)
        real  == EvalSymlinks(nodes, Abs(path))
    IN  IF ~check.safe THEN FileToolResult("Blocked: " \o check.reason, nodes)
        ELSE IF real = <<>> THEN FileToolResult("Error: file not found", nodes)
        ELSE IF nodes[real[1]].kind = "dir"
        THEN FileToolResult("Error: is a directory", nodes)
        ELSE IF nodes[real[1]].content # "old"
        THEN FileToolResult("Error: text not found in file", nodes)
        ELSE FileToolResult("Edited", WithFile(nodes, real[1], "new"))

\* executor.DeleteFile, lines 297-322.
DeleteFile(nodes, path) ==
    LET check == IsPathSafe(nodes, path)
        real  == EvalSymlinks(nodes, Abs(path))
    IN  IF ~check.safe THEN FileToolResult("Blocked: " \o check.reason, nodes)
        ELSE IF real = <<>> THEN FileToolResult("Error: file not found", nodes)
        ELSE IF nodes[real[1]].kind = "dir"
        THEN FileToolResult("Error: cannot delete directories with this tool", nodes)
        ELSE FileToolResult("Deleted",
                            [p \in DOMAIN nodes \ {real[1]} |-> nodes[p]])

\* executor.SearchFiles and executor.ListDirectory, lines 185-294: rg, grep
\* and ls are run on the path as it is given; no safety check.
SearchFiles(nodes, path) ==
    IF EvalSymlinks(nodes, Abs(path)) = <<>>
    THEN FileToolResult("No such file or directory", nodes)
    ELSE FileToolResult("matches", nodes)

ListDirectory(nodes, path) ==
    IF EvalSymlinks(nodes, Abs(path)) = <<>>
    THEN FileToolResult("Error: exit status", nodes)
    ELSE FileToolResult("listing", nodes)

FileTools == {"read_file", "write_file", "edit_file", "delete_file",
              "search_files", "list_directory"}
ModifyingTools == {"write_file", "edit_file", "delete_file"}

\* Mutant of checksPath: every handler checks the path first.
checksPath_All(tool) == TRUE

\* tool_handlers.go: the handlers that call IsPathSafe before anything else
\* (lines 120, 150, 221); handleReadFile, handleSearchFiles and
\* handleListDirectory do not.
checksPath(tool) == tool \in ModifyingTools

\* The executor function a handler ends with.
runFileTool(tool, nodes, path) ==
    CASE tool = "read_file"      -> ReadFile(nodes, path)
      [] tool = "write_file"     -> WriteFile(nodes, path, "new")
      [] tool = "edit_file"      -> EditFile(nodes, path)
      [] tool = "delete_file"    -> DeleteFile(nodes, path)
      [] tool = "search_files"   -> SearchFiles(nodes, path)
      [] tool = "list_directory" -> ListDirectory(nodes, path)

\* handleReadFile, handleWriteFile, handleEditFile, handleSearchFiles,
\* handleListDirectory and handleDeleteFile (tool_handlers.go, lines 91-243):
\* the path check where there is one, the dangerous-mode test of
\* delete_file, the user's confirmation of a change, then the executor
\* function.  safe is <<what IsPathSafe answered>>, or <<>> when the handler
\* did not ask.
handleFileTool(tool, nodes, path, choice) ==
    LET check == IsPathSafe(nodes, path)
        asked == IF checksPath(tool) THEN <<check.safe>> ELSE <<>>
        done(result, touched) ==
            [Output |-> result.Output, nodes |-> result.nodes, safe |-> asked,
             touched |-> touched]
    IN  IF checksPath(tool) /\ ~check.safe
        THEN done(FileToolResult("Blocked: " \o check.reason, nodes), FALSE)
        ELSE IF tool = "delete_file" /\ ~merged.DangerousEnabled
        THEN done(FileToolResult("Delete blocked: dangerous operations are disabled",
                                 nodes), FALSE)
        ELSE IF tool \in ModifyingTools /\ choice = ApprovalDenied
        THEN done(FileToolResult("denied by user", nodes), FALSE)
        ELSE done(runFileTool(tool, nodes, path), TRUE)

\* A Linux file system, where /var/run is a link to /run, and a macOS one,
\* where /var is a link to /private/var.
LinuxFiles ==
    (<<>> :> DirNode) @@ (<<"var">> :> DirNode) @@ (<<"run">> :> DirNode)
    @@ (<<"tmp">> :> DirNode) @@ (<<"var", "run">> :> LinkNode(<<"run">>))
    @@ (<<"var", "f">> :> FileNode("old")) @@ (<<"tmp", "f">> :> FileNode("old"))

MacFiles ==
    (<<>> :> DirNode) @@ (<<"private">> :> DirNode)
    @@ (<<"private", "var">> :> DirNode) @@ (<<"tmp">> :> DirNode)
    @@ (<<"var">> :> LinkNode(<<"private", "var">>))
    @@ (<<"private", "var", "f">> :> FileNode("old"))
    @@ (<<"tmp", "f">> :> FileNode("old"))

\* The paths the model asks the tools to work on.
ToolPaths ==
    { <<"var", "f">>, <<"var", "g">>, <<"var", "run", "f">>, <<"tmp", "f">>,
      <<"tmp", "d", "g">>, <<"tmp", "..", "var", "f">>, <<"private", "var", "f">> }

FilesInit ==
    /\ globalFile = <<>>
    /\ projectFile = <<>>
    /\ \E dangerous \in BOOLEAN :
           /\ global = [DefaultSettings EXCEPT !.DangerousEnabled = dangerous]
           /\ merged = [DefaultSettings EXCEPT !.DangerousEnabled = dangerous]
    /\ project = <<>>
    /\ sessionAllowed = {}
    /\ lastCheck = <<>>
    /\ lastOnce = <<>>
    /\ clsCmd = ""
    /\ clsRisk = "none"
    /\ NoSession
    /\ NoMatcherCall
    /\ NoStream
    /\ NoRetry
    /\ ctxDone = FALSE
    /\ NoToken
    /\ session = <<>>
    /\ sm = <<>>
    /\ \E nodes \in {LinuxFiles, MacFiles} : fs = [nodes |-> nodes, last |-> <<>>]

\* processToolCall for a file tool: the handler runs, and its text is the
\* content of the tool message.
FileToolCall(tool, path, choice) ==
    LET out == handleFileTool(tool, fs.nodes, path, choice)
    IN  fs' = [nodes |-> out.nodes,
               last  |-> <<[tool |-> tool, path |-> path, safe |-> out.safe,
                            touched |-> out.touched,
                            message |-> ToolMessage(out.Output, "call_a")]>>]

FilesOnly ==
    UNCHANGED <<permVars, clsVars, agentVars, mtcVars, ctxDone, streamVars,
                retryVars, tokenVars, session, sm>>

FilesNext ==
    \E tool \in FileTools, path \in ToolPaths,
       choice \in {ApprovalDenied, ApprovalOnce} :
        FileToolCall(tool, path, choice) /\ FilesOnly

SpecFiles == FilesInit /\ [][FilesNext]_vars

-----------------------------------------------------------------------------
(* The settings manager shared by goroutines (package settings) *)

\* Two goroutines that call methods of one Manager: a slash command and a
\* permission check or save.  Two of them meet at the lock as any number
\* would.
Users == {1, 2}

\* The methods of Manager the goroutines call.
Methods ==
    {"Load", "Save", "GetGlobalPath", "GetMerged", "AddGlobalAllowRule",
     "AddSessionAllowRule", "IsSessionAllowed", "SetDangerousEnabled"}

\* The methods that take mu.Lock(); the others take mu.RLock().
takesLock(method) ==
    method \in {"Load", "AddGlobalAllowRule", "AddSessionAllowRule",
                "SetDangerousEnabled"}

\* One access to a field of the Manager.
FieldRead(field)  == [field |-> field, write |-> FALSE]
FieldWrite(field) == [field |-> field, write |-> TRUE]

\* The path getGlobalSettingsPath returns when the environment names a home.
SettingsPath == "settings.json"

\* What a string holds after two unsynchronised writes, or what a read sees
\* beside an unsynchronised write.
TornPath == "torn"

\* The accesses of a method once it holds its lock, in order.  found is
\* whether getGlobalSettingsPath succeeds.  Save starts by reading
\* globalPath; what follows depends on what it reads (afterPathRead).
accesses(method, found) ==
    CASE method = "Load" ->
             IF found
             THEN <<FieldWrite("globalPath"), FieldWrite("global"),
                    FieldWrite("merged")>>
             ELSE <<>>
      [] method = "Save" -> <<FieldRead("globalPath")>>
      [] method = "GetGlobalPath" -> <<FieldRead("globalPath")>>
      [] method = "GetMerged" -> <<FieldRead("merged")>>
      [] method = "AddGlobalAllowRule" ->
             <<FieldWrite("global"), FieldWrite("merged")>>
      [] method = "AddSessionAllowRule" -> <<FieldWrite("sessionAllowlist")>>
      [] method = "IsSessionAllowed" -> <<FieldRead("sessionAllowlist")>>
      [] method = "SetDangerousEnabled" ->
             <<FieldWrite("global"), FieldWrite("merged")>>

\* Save, lines 191-200: with no stored path the path is looked up and
\* stored, then the global settings are written to it.
afterPathRead(seen, found) ==
    IF seen = ""
    THEN (IF found THEN <<FieldWrite("globalPath"), FieldRead("global")>>
          ELSE <<>>)
    ELSE <<FieldRead("global")>>

\* A goroutine outside every method.
Outside == [pc |-> "idle", method |-> "", todo |-> <<>>, cur |-> <<>>]

\* NewManager: no path is stored until Load or Save has looked it up.
NewManager ==
    [mu |-> RWMutex, globalPath |-> "", procs |-> [self \in Users |-> Outside]]

\* Another goroutine is inside an access to the same field, and one of the
\* two accesses is a write.
Conflicts(self, access) ==
    \E other \in Users \ {self} :
        /\ sm.procs[other].cur # <<>>
        /\ sm.procs[other].cur[1].field = access.field
        /\ sm.procs[other].cur[1].write \/ access.write

LocksInit ==
    /\ globalFile = <<>>
    /\ projectFile = <<>>
    /\ global = DefaultSettings
    /\ project = <<>>
    /\ merged = DefaultSettings
    /\ sessionAllowed = {}
    /\ lastCheck = <<>>
    /\ lastOnce = <<>>
    /\ clsCmd = ""
    /\ clsRisk = "none"
    /\ NoSession
    /\ NoMatcherCall
    /\ NoStream
    /\ NoRetry
    /\ ctxDone = FALSE
    /\ NoToken
    /\ session = <<>>
    /\ fs = <<>>
    /\ sm = NewManager

\* The first statement of a method: mu.Lock() or mu.RLock().  A writer
\* announces itself when no other writer has.
MethodCall(self, method) ==
    /\ sm.procs[self].pc = "idle"
    /\ takesLock(method) => sm.mu.w = Nobody
    /\ sm' = [sm EXCEPT
                !.mu = IF takesLock(method) THEN [@ EXCEPT !.w = self]
                       ELSE RLock(@, self),
                !.procs[self] = [pc |-> "lock", method |-> method,
                                 todo |-> <<>>, cur |-> <<>>]]

\* The lock is granted: to a writer when the readers have left, to a reader
\* when no writer stands before it.
MethodEnters(self, found) ==
    /\ sm.procs[self].pc = "lock"
    /\ IF takesLock(sm.procs[self].method)
       THEN sm.mu.w = self /\ sm.mu.readers = {}
       ELSE self \in sm.mu.readers
    /\ sm' = [sm EXCEPT !.procs[self].pc = "body",
                        !.procs[self].todo = accesses(sm.procs[self].method, found)]

\* The goroutine starts on its next access.
AccessBegins(self) ==
    /\ sm.procs[self].pc = "body"
    /\ sm.procs[self].cur = <<>>
    /\ sm.procs[self].todo # <<>>
    /\ sm' = [sm EXCEPT !.procs[self].cur = <<Head(sm.procs[self].todo)>>,
                        !.procs[self].todo = Tail(@)]

\* The access is done.  A write of globalPath stores the path, and a read of
\* it in Save decides how Save goes on; beside a conflicting access either
\* may also see or leave a torn string.
AccessEnds(self, found, torn) ==
    LET p == sm.procs[self]
        access == p.cur[1]
        racing == Conflicts(self, access)
    IN  /\ p.pc = "body"
        /\ p.cur # <<>>
        /\ torn => racing
        /\ IF access.field = "globalPath" /\ access.write
           THEN sm' = [sm EXCEPT !.globalPath = IF torn THEN TornPath
                                                 ELSE SettingsPath,
                                 !.procs[self].cur = <<>>]
           ELSE IF access.field = "globalPath" /\ p.method = "Save"
           THEN sm' = [sm EXCEPT
                         !.procs[self].cur = <<>>,
                         !.procs[self].todo =
                             afterPathRead(IF torn THEN TornPath
                                           ELSE sm.globalPath, found)]
           ELSE /\ ~torn
                /\ sm' = [sm EXCEPT !.procs[self].cur = <<>>]

\* The deferred mu.Unlock() or mu.RUnlock().
MethodReturns(self) ==
    /\ sm.procs[self].pc = "body"
    /\ sm.procs[self].cur = <<>>
    /\ sm.procs[self].todo = <<>>
    /\ sm' = [sm EXCEPT
                !.mu = IF takesLock(sm.procs[self].method) THEN Unlock(@)
                       ELSE RUnlock(@, self),
                !.procs[self] = Outside]

LocksOnly ==
    UNCHANGED <<permVars, clsVars, agentVars, mtcVars, ctxDone, streamVars,
                retryVars, tokenVars, session, fs>>

LocksNext ==
    \/ \E self \in Users, method \in Methods :
           MethodCall(self, method) /\ LocksOnly
    \/ \E self \in Users, found \in BOOLEAN :
           MethodEnters(self, found) /\ LocksOnly
    \/ \E self \in Users : AccessBegins(self) /\ LocksOnly
    \/ \E self \in Users, found \in BOOLEAN, torn \in BOOLEAN :
           AccessEnds(self, found, torn) /\ LocksOnly
    \/ \E self \in Users : MethodReturns(self) /\ LocksOnly

SpecLocks == LocksInit /\ [][LocksNext]_vars

-----------------------------------------------------------------------------
(* A model request through a provider client (package api) *)

\* The wrapper a client puts round its request.  AzureClient wraps the
\* non-streaming request in WithRetry and the stream-opening one in
\* WithStreamRetry; CopilotClient sends either with one httpClient.Do and
\* returns its error as it is.
wrapperOf(provider, streaming) ==
    IF provider = "azure" THEN (IF streaming THEN "stream" ELSE "api")
    ELSE "unwrapped"

\* QueryWithHistoryAndToolsContext or QueryStreamWithHistoryAndToolsContext
\* is called on the session's client with a live context.
ClientInit ==
    /\ globalFile = <<>>
    /\ projectFile = <<>>
    /\ global = DefaultSettings
    /\ project = <<>>
    /\ merged = DefaultSettings
    /\ sessionAllowed = {}
    /\ lastCheck = <<>>
    /\ lastOnce = <<>>
    /\ clsCmd = ""
    /\ clsRisk = "none"
    /\ NoSession
    /\ NoMatcherCall
    /\ NoStream
    /\ NoToken
    /\ fs = <<>>
    /\ sm = <<>>
    /\ ctxDone = FALSE
    /\ \E provider \in Providers, streaming \in BOOLEAN :
           /\ session = [clients  |-> <<NewClient(provider)>>,
                         client   |-> 1,
                         deferred |-> 1,
                         returned |-> FALSE]
           /\ policy = wrapperOf(provider, streaming)
    /\ rpc = (IF policy = "unwrapped" THEN "direct" ELSE "check")
    /\ keyCount = 0
    /\ currentIdx = 0
    /\ attempt = 0
    /\ outcomes = <<>>
    /\ lastErr = <<>>
    /\ retResult = <<>>
    /\ slept = <<>>

ClientOnly ==
    UNCHANGED <<sideVars, permVars, clsVars, agentVars, mtcVars, streamVars>>

\* The request up to its return or, for a wrapped streaming request, up to
\* the start of stream processing.
ClientNext ==
    \/ RetryCancel /\ ClientOnly
    \/ RetryCheck /\ ClientOnly
    \/ \E outcome \in OperationOutcomes : RetryDirect(outcome) /\ ClientOnly
    \/ \E outcome \in OperationOutcomes : RetryCall(outcome) /\ ClientOnly
    \/ RetryBackoff /\ ClientOnly

SpecClient == ClientInit /\ [][ClientNext]_vars

-----------------------------------------------------------------------------
(* Properties of the permission manager *)

Blocked(result)      == ~result.allowed /\ ~result.needsConfirm
AllowedNoAsk(result) == result.allowed /\ ~result.needsConfirm
MustConfirm(result)  == ~result.allowed /\ result.needsConfirm

\* The rules of the global and of the project settings together.
ProjectRules(field) == IF project = <<>> THEN <<>> ELSE project[1][field]
AllDenyRules  == global.Deny \o ProjectRules("Deny")
AllAllowRules == global.Allow \o ProjectRules("Allow")

SomeRuleMatches(cmd, rules) == \E k \in 1..Len(rules) : Match(cmd, rules[k])

\* What risk class and toggles alone decide.
ByRiskAndToggles(cmd) ==
    LET risk == ClassifyCommand(cmd)
    IN  CASE risk = Safe ->
                IF merged.AutoAllowSafeCommands THEN "allow" ELSE "confirm"
          [] risk = NeedsConfirm -> "confirm"
          [] risk = Dangerous ->
                IF merged.DangerousEnabled THEN "confirm" ELSE "block"

Outcome(result) ==
    IF AllowedNoAsk(result) THEN "allow"
    ELSE IF MustConfirm(result) THEN "confirm"
    ELSE IF Blocked(result) THEN "block"
    ELSE "allow and confirm"

\* C2: a command that is not in the session allowlist and that some deny rule
\* of the global or project settings matches is blocked with no confirmation
\* offered, whatever allow rules match it, whatever its risk class and
\* whatever the two toggles are.
C2_DenyRuleBlocks ==
    lastCheck # <<>> =>
        LET cmd    == lastCheck[1].cmd
            result == lastCheck[1].result
        IN  (cmd \notin sessionAllowed /\ SomeRuleMatches(cmd, AllDenyRules))
                => Blocked(result)

\* C2 witness: a command that a deny rule and an allow rule both match was
\* checked while dangerous mode was on, and was blocked.
C2_Witness ==
    /\ lastCheck # <<>>
    /\ lastCheck[1].cmd \notin sessionAllowed
    /\ SomeRuleMatches(lastCheck[1].cmd, AllDenyRules)
    /\ SomeRuleMatches(lastCheck[1].cmd, AllAllowRules)
    /\ merged.DangerousEnabled
    /\ Blocked(lastCheck[1].result)

\* C3: for a command that no session-allowlist entry, no deny rule and no
\* allow rule matches, the decision is the one the risk class and the two
\* toggles give: Safe is allowed when auto_allow_safe_commands is on and asks
\* when it is off, NeedsConfirm asks, Dangerous asks when dangerous_enabled
\* is on and is blocked when it is off.
C3_RiskAndTogglesDecide ==
    lastCheck # <<>> =>
        LET cmd    == lastCheck[1].cmd
            result == lastCheck[1].result
        IN  (/\ cmd \notin sessionAllowed
             /\ ~SomeRuleMatches(cmd, AllDenyRules)
             /\ ~SomeRuleMatches(cmd, AllAllowRules))
                => Outcome(result) = ByRiskAndToggles(cmd)

\* C3 witness: a dangerous command that no rule matches was checked while
\* dangerous mode was on, and confirmation was asked for.
C3_Witness ==
    /\ lastCheck # <<>>
    /\ lastCheck[1].cmd \notin sessionAllowed
    /\ ~SomeRuleMatches(lastCheck[1].cmd, AllDenyRules)
    /\ ~SomeRuleMatches(lastCheck[1].cmd, AllAllowRules)
    /\ ClassifyCommand(lastCheck[1].cmd) = Dangerous
    /\ merged.DangerousEnabled
    /\ MustConfirm(lastCheck[1].result)

\* What the rules and the risk class decide for a command.
ByRulesAndRisk(cmd) ==
    IF SomeRuleMatches(cmd, AllDenyRules) THEN "block"
    ELSE IF SomeRuleMatches(cmd, AllAllowRules) THEN "allow"
    ELSE ByRiskAndToggles(cmd)

\* C6: a command in the session allowlist is allowed without confirmation by
\* every check, whatever the rules and toggles have become; it stays in the
\* session allowlist until ClearSessionAllowlist is called; a command that is
\* not in it (as every command after ClearSessionAllowlist) gets the decision
\* of the rules and the risk classification.
C6_SessionAllowlistUntilCleared ==
    /\ [](lastCheck # <<>> =>
            IF lastCheck[1].cmd \in sessionAllowed
            THEN AllowedNoAsk(lastCheck[1].result)
            ELSE Outcome(lastCheck[1].result) = ByRulesAndRisk(lastCheck[1].cmd))
    /\ [][/\ ~(sessionAllowed \subseteq sessionAllowed') => ClearSessionAllowlist
          /\ ClearSessionAllowlist => sessionAllowed' = {}]_vars

\* C6 witness: a command of the session allowlist that a deny rule matches
\* was checked and allowed without confirmation.
C6_Witness ==
    /\ lastCheck # <<>>
    /\ lastCheck[1].cmd \in sessionAllowed
    /\ SomeRuleMatches(lastCheck[1].cmd, AllDenyRules)
    /\ AllowedNoAsk(lastCheck[1].result)

\* The rules an Always approval appended: their pattern is a command string
\* (the patterns of /allow and /deny are none of the commands).
IsAlwaysRule(rule) == rule.Pattern \in PermCommands /\ rule.Tool = "Bash"

\* C7: the rule AddToAllowlist(c, Always) appends to the global allow list
\* is an exact-match rule: it matches c and no other command string.
C7_AlwaysRuleIsExact ==
    \A k \in 1..Len(global.Allow) :
        IsAlwaysRule(global.Allow[k]) =>
            \A cmd \in PermCommands :
                Match(cmd, global.Allow[k]) <=> cmd = global.Allow[k].Pattern

\* C34: AddToAllowlist(c, Once) leaves the session allowlist, the rules, the
\* toggles and the settings files as they were, so CheckPermission(c)
\* decides after the call as it did before it.
C34_OnceChangesNothing ==
    /\ [][lastOnce' # <<>> =>
              UNCHANGED <<global, project, merged, sessionAllowed, globalFile,
                          projectFile>>]_vars
    /\ [](lastOnce # <<>> =>
              CheckPermission(lastOnce[1].cmd) = lastOnce[1].before)

\* C34 witness: "rm" was approved once; it is in no allowlist and the next
\* check asks for confirmation again.
C34_Witness ==
    /\ lastOnce # <<>>
    /\ lastOnce[1].cmd = "rm"
    /\ "rm" \notin sessionAllowed
    /\ ~SomeRuleMatches("rm", AllAllowRules)
    /\ MustConfirm(CheckPermission("rm"))

\* A check of a command rated Dangerous, made while dangerous mode is off.
DangerousCheckedWhileOff ==
    /\ lastCheck # <<>>
    /\ ClassifyCommand(lastCheck[1].cmd) = Dangerous
    /\ ~merged.DangerousEnabled

\* C35 as stated: while dangerous_enabled is off, CheckPermission never
\* returns allowed for a command rated Dangerous.
C35_DangerousNeverAllowedWhileOff ==
    DangerousCheckedWhileOff => ~lastCheck[1].result.allowed

\* C35: while dangerous_enabled is off, CheckPermission returns allowed for a
\* command rated Dangerous only if the command is in the session allowlist,
\* or an allow rule and no deny rule matches it; every other such command is
\* blocked with no confirmation offered.
C35_DangerousAllowedOnlyByListOrRule ==
    DangerousCheckedWhileOff =>
        IF \/ lastCheck[1].cmd \in sessionAllowed
           \/ /\ ~SomeRuleMatches(lastCheck[1].cmd, AllDenyRules)
              /\ SomeRuleMatches(lastCheck[1].cmd, AllAllowRules)
        THEN AllowedNoAsk(lastCheck[1].result)
        ELSE Blocked(lastCheck[1].result)

\* C35 witness: after a session approval of another command, a dangerous
\* command that no rule matches was checked with dangerous mode off, and was
\* blocked.
C35_Witness ==
    /\ DangerousCheckedWhileOff
    /\ sessionAllowed # {}
    /\ lastCheck[1].cmd \notin sessionAllowed
    /\ ~SomeRuleMatches(lastCheck[1].cmd, AllAllowRules)
    /\ ~SomeRuleMatches(lastCheck[1].cmd, AllDenyRules)
    /\ Blocked(lastCheck[1].result)

\* C36: once EnableDangerous has switched dangerous mode on (in the global
\* and in the merged settings), it stays on in the merged settings in every
\* step other than DisableDangerous and ReloadSettings, in particular in
\* AddToAllowlist(c, Always) and AddPatternRule, with or without project
\* settings.
C36_DangerousStaysOn ==
    [][(/\ global.DangerousEnabled
        /\ merged.DangerousEnabled
        /\ ~merged'.DangerousEnabled)
           => (DisableDangerous \/ ReloadSettings)]_vars

\* C37: /allow-dangerous lasts for the session only: no save writes
\* dangerous_enabled = true to the global settings file.  The file is absent
\* at first start, so every content of it was written by a save of the
\* session.
C37_DangerousNotPersisted ==
    globalFile # <<>> => ~globalFile[1].DangerousEnabled

-----------------------------------------------------------------------------
(* Properties of the classifier *)

HasChaining(s) == \E i \in 1..Len(s) : CharAt(s, i) \in {";", "&", "|"}

\* C8 as claimed: every command string that matches a dangerous pattern is
\* classified Dangerous.
C8_DangerousPatternAsGiven ==
    (clsRisk # "none" /\ MatchesAny(dangerousPatterns, clsCmd))
        => clsRisk = Dangerous

\* C8: every command string that, with the white space around it removed,
\* matches a dangerous pattern is classified Dangerous, also when it holds a
\* chaining operator or begins with a safe-listed token.
C8_DangerousPatternWins ==
    (clsRisk # "none" /\ MatchesAny(dangerousPatterns, TrimSpace(clsCmd)))
        => clsRisk = Dangerous

\* C8 witness: a command that begins with a safe-listed token, holds a
\* chaining operator and matches a dangerous pattern was classified.
C8_Witness ==
    /\ clsRisk = Dangerous
    /\ FirstField(clsCmd) \in safeCommands
    /\ HasChaining(clsCmd)
    /\ MatchesAny(dangerousPatterns, TrimSpace(clsCmd))

\* C9 as claimed: a command whose first token is safe-listed and that holds
\* no chaining operator is classified Safe.
C9_SafeTokenAsGiven ==
    (clsRisk # "none" /\ FirstField(clsCmd) \in safeCommands /\ ~HasChaining(clsCmd))
        => clsRisk = Safe

\* C9: a command whose first token is safe-listed, that holds no chaining
\* operator and that matches no dangerous pattern is classified Safe.
C9_SafeTokenIsSafe ==
    (/\ clsRisk # "none"
     /\ FirstField(clsCmd) \in safeCommands
     /\ ~HasChaining(clsCmd)
     /\ ~MatchesAny(dangerousPatterns, TrimSpace(clsCmd)))
        => clsRisk = Safe

\* C9 witness: such a command, with further arguments, was classified Safe.
C9_Witness ==
    /\ clsRisk = Safe
    /\ FirstField(clsCmd) \in safeCommands
    /\ TrimSpace(clsCmd) # FirstField(clsCmd)
    /\ ~HasChaining(clsCmd)

\* C10: a command that holds a chaining operator is never classified Safe,
\* and is classified NeedsConfirm when it matches no dangerous pattern, also
\* when its first token is safe-listed or it matches a read-only pattern.
C10_ChainingNeverSafe ==
    (clsRisk # "none" /\ HasChaining(clsCmd)) =>
        /\ clsRisk # Safe
        /\ ~MatchesAny(dangerousPatterns, clsCmd) => clsRisk = NeedsConfirm

\* C10 witness: a chained command that matches a read-only command pattern
\* and no dangerous pattern was classified NeedsConfirm.
C10_Witness ==
    /\ clsRisk = NeedsConfirm
    /\ HasChaining(clsCmd)
    /\ MatchesAny(safePatterns, TrimSpace(clsCmd))
    /\ ~MatchesAny(dangerousPatterns, clsCmd)

-----------------------------------------------------------------------------
(* Properties of the agent loop *)

\* C1: a command requested through execute_command reaches the executor only
\* if, in the handling of that tool call, CheckPermission on that very string
\* answered allowed, or answered needs-confirmation and the user chose an
\* approval other than Denied; a blocked or refused command is never run.
C1_ExecuteOnlyIfPermitted ==
    lastExec # <<>> =>
        LET t == lastExec[1]
        IN  /\ t.executed # <<>> =>
                   /\ t.executed = <<t.requested>>
                   /\ t.checked = t.requested
                   /\ \/ t.decision.allowed
                      \/ /\ t.decision.needsConfirm
                         /\ t.choice \in Approvals \ {ApprovalDenied}
            /\ Blocked(t.decision) => t.executed = <<>>
            /\ t.choice = ApprovalDenied => t.executed = <<>>

\* A command that needed confirmation has run after the user approved it,
\* and the model has been told its output.
C1_Witness ==
    /\ lastExec # <<>>
    /\ lastExec[1].executed = <<"rm">>
    /\ MustConfirm(lastExec[1].decision)
    /\ lastExec[1].choice = ApprovalOnce
    /\ messages[Len(messages)].Role = "tool"

\* In conv, every assistant message with N tool calls is followed at once by
\* exactly N tool messages, the k-th carrying the k-th call's id.
ToolCallsAnswered(conv) ==
    \A i \in 1..Len(conv) :
        LET n == Len(conv[i].ToolCalls)
        IN  (conv[i].Role = "assistant" /\ n > 0) =>
                /\ i + n <= Len(conv)
                /\ \A k \in 1..n :
                       /\ conv[i + k].Role = "tool"
                       /\ conv[i + k].ToolCallID = conv[i].ToolCalls[k].ID
                /\ i + n < Len(conv) => conv[i + n + 1].Role # "tool"

\* C4: in every conversation sent to the model, each assistant message with
\* N tool calls is immediately followed by exactly N tool messages with the
\* calls' ids in order (also after a cancelled or failed turn, and for calls
\* with malformed arguments or an unknown tool name).
C4_SentToolCallsAnswered == ToolCallsAnswered(sent)

\* The loop itself keeps the pairing: in a turn that started from a
\* conversation whose tool calls are all answered, the conversation about to
\* be sent has all its tool calls answered.
C4_TurnKeepsPairing ==
    (pc = "request" /\ ToolCallsAnswered(turnStart)) => ToolCallsAnswered(messages)

\* A conversation is about to go out whose tool calls are all answered, one
\* of them with malformed arguments and one naming an unknown tool.
C4_TurnKeepsPairing_Witness ==
    /\ pc = "request"
    /\ ToolCallsAnswered(messages)
    /\ \E i \in 2..Len(messages) :
           /\ messages[i].Content = "Unknown tool: launch_rocket"
           /\ messages[i - 1].Content = "Error parsing arguments"

\* C5: when a turn ends by cancellation or API error, at the first request
\* or after tool-call rounds, the stored conversation is again what it was
\* before the user's message was submitted.
C5_FailedTurnRolledBack ==
    [][(pc = "request" /\ turnEnd' \in {"cancelled", "error"})
           => messages' = turnStart]_vars

\* Rollback at the first request of a turn: a failure there does restore the
\* conversation.
C5_FirstRequestRolledBack ==
    [][(pc = "request" /\ turnEnd' \in {"cancelled", "error"}
           /\ messages[Len(messages)].Role = "user")
           => messages' = turnStart]_vars

-----------------------------------------------------------------------------
(* Properties of the pattern matcher *)

\* The positions of the rules of a list that match the command.
MatchingRules(command, rules) ==
    { k \in 1..Len(rules) : Match(command, rules[k]) }

\* C11: the matcher's CheckPermission returns Deny whenever any deny rule
\* matches the command, also if an allow rule matches it too; Allow when no
\* deny rule and some allow rule matches; NoMatch otherwise.
C11_DenyThenAllowThenNoMatch ==
    mtcResult # "none" =>
        LET denying  == MatchingRules(mtcCmd, mtcPerms.Deny)
            allowing == MatchingRules(mtcCmd, mtcPerms.Allow)
        IN  /\ denying # {} => mtcResult = Deny
            /\ (denying = {} /\ allowing # {}) => mtcResult = Allow
            /\ (denying = {} /\ allowing = {}) => mtcResult = NoMatch

\* C11 witness: allow "rm:*", deny "rm -rf *" and the command "rm -rf /tmp"
\* gave Deny.
C11_Witness ==
    /\ mtcResult = Deny
    /\ mtcCmd = "rm -rf /tmp"
    /\ mtcPerms.Allow = <<PermissionRule("rm:*", "Bash")>>
    /\ mtcPerms.Deny = <<PermissionRule("rm -rf *", "Bash")>>

\* The rule is a colon pattern "p:*" whose p holds no colon.
IsColonStar(rule) ==
    /\ HasSuffix(rule.Pattern, ":*")
    /\ ~Contains(TrimSuffix(rule.Pattern, ":*"), ":")
    /\ TrimSuffix(rule.Pattern, ":*") # ""

\* The command is p, or p and a space and anything.
IsWordPrefix(command, p) ==
    \/ command = p
    \/ /\ Len(command) > Len(p)
       /\ SubSeq(command, 1, Len(p)) = p
       /\ SubSeq(command, Len(p) + 1, Len(p) + 1) = " "

\* C33: a colon pattern "p:*" matches exactly the commands that are p or
\* start with p followed by a space, so a list of the one allow rule "p:*"
\* allows exactly those; "git:*" matches "git", "git status" and
\* "git commit -m x" and does not match "gitignore".
C33_ColonStarMatchesWordPrefix ==
    /\ \A k \in 1..Len(mtcPerms.Allow) :
           IsColonStar(mtcPerms.Allow[k]) =>
               (matchColonPattern(mtcCmd, mtcPerms.Allow[k].Pattern)
                    <=> IsWordPrefix(mtcCmd, TrimSuffix(mtcPerms.Allow[k].Pattern, ":*")))
    /\ (/\ mtcResult # "none"
        /\ mtcPerms.Deny = <<>>
        /\ Len(mtcPerms.Allow) = 1
        /\ IsColonStar(mtcPerms.Allow[1]))
           => (mtcResult = Allow
                   <=> IsWordPrefix(mtcCmd, TrimSuffix(mtcPerms.Allow[1].Pattern, ":*")))
    /\ (mtcResult # "none" /\ mtcPerms = [Allow |-> <<PermissionRule("git:*", "Bash")>>,
                                          Deny |-> <<>>])
           => (mtcResult = Allow
                   <=> mtcCmd \in {"git", "git status", "git commit -m x"})

\* C33 witness: the one allow rule "git:*" gave no match for "gitignore".
C33_Witness ==
    /\ mtcCmd = "gitignore"
    /\ mtcPerms = [Allow |-> <<PermissionRule("git:*", "Bash")>>, Deny |-> <<>>]
    /\ mtcResult = NoMatch

-----------------------------------------------------------------------------
(* Properties of the stream processor *)

RECURSIVE Concat(_)
Concat(strs) == IF strs = <<>> THEN "" ELSE Head(strs) \o Concat(Tail(strs))

RECURSIVE Flatten(_)
Flatten(seqs) == IF seqs = <<>> THEN <<>> ELSE Head(seqs) \o Flatten(Tail(seqs))

\* The chunks among the lines read, in arrival order.
ChunksRead ==
    LET IsChunk(line) == line.doc # <<>>
        chunkLines   == SelectSeq(consumed, IsChunk)
    IN  [k \in 1..Len(chunkLines) |-> chunkLines[k].doc[1]]

\* The content deltas received, in arrival order.
ContentDeltas ==
    LET firstChoice == [k \in 1..Len(ChunksRead) |->
                           IF ChunksRead[k].Choices = <<>> THEN ""
                           ELSE ChunksRead[k].Choices[1].Delta.Content]
        NonEmpty(c) == c # ""
    IN  SelectSeq(firstChoice, NonEmpty)

\* The tool-call deltas received, in arrival order.
ToolCallDeltas ==
    Flatten([k \in 1..Len(ChunksRead) |->
                IF ChunksRead[k].Choices = <<>> THEN <<>>
                ELSE ChunksRead[k].Choices[1].Delta.ToolCalls])

\* The argument fragments received for an index, in arrival order.
Fragments(index) ==
    LET ForIndex(tc) == tc.Index = index
        deltas       == SelectSeq(ToolCallDeltas, ForIndex)
    IN  [k \in 1..Len(deltas) |-> deltas[k].Arguments]

\* The indices that appeared in the stream.
IndicesSeen == { ToolCallDeltas[k].Index : k \in 1..Len(ToolCallDeltas) }

\* The stream has been read to its end: the sentinel or the end of the body.
ReadToEnd ==
    \/ stream = <<>>
    \/ consumed # <<>> /\ consumed[Len(consumed)] = DoneLine

\* C12: the finalized response lists every tool call accumulated during the
\* stream, each exactly once, in ascending index order, whatever indices
\* appeared.
C12_AllToolCallsFinalized ==
    delivered # <<>> =>
        LET calls == delivered[1].ToolCalls
        IN  /\ { calls[k].Index : k \in 1..Len(calls) } = IndicesSeen
            /\ \A j, k \in 1..Len(calls) : j < k => calls[j].Index < calls[k].Index

\* What does hold: the indices below the number of accumulated calls are
\* finalized, in ascending order.
C12_IndicesBelowCountFinalized ==
    delivered # <<>> =>
        LET calls == delivered[1].ToolCalls
        IN  /\ { calls[k].Index : k \in 1..Len(calls) }
                   = { i \in IndicesSeen : i < Cardinality(IndicesSeen) }
            /\ \A j, k \in 1..Len(calls) : j < k => calls[j].Index < calls[k].Index

\* C13: the arguments of each tool call are the concatenation, in arrival
\* order, of the argument fragments received for its index, while the stream
\* is read and in the finalized response.
C13_ArgumentsAreConcatenation ==
    /\ DOMAIN toolCallsMap = IndicesSeen
    /\ \A i \in DOMAIN toolCallsMap :
           toolCallsMap[i].Function.Arguments = Concat(Fragments(i))
    /\ delivered # <<>> =>
           \A k \in 1..Len(delivered[1].ToolCalls) :
               delivered[1].ToolCalls[k].Function.Arguments
                   = Concat(Fragments(delivered[1].ToolCalls[k].Index))

\* C13 witness: a finalized tool call whose arguments came in two events.
C13_Witness ==
    /\ delivered # <<>>
    /\ delivered[1].ToolCalls # <<>>
    /\ delivered[1].ToolCalls[1].Function.Arguments = "xy"
    /\ Len(Fragments(0)) = 2

\* C14: for a stream ended by the [DONE] sentinel, the content of the
\* finalized response is the concatenation of all content deltas in arrival
\* order, however content and tool-call deltas are interleaved.
C14_ContentIsConcatenation ==
    (delivered # <<>> /\ consumed # <<>> /\ consumed[Len(consumed)] = DoneLine)
        => delivered[1].Content = Concat(ContentDeltas)

\* C14 witness: a stream ended by the sentinel with two content deltas, the
\* second in one event with a tool-call delta.
C14_Witness ==
    /\ delivered # <<>>
    /\ consumed # <<>>
    /\ consumed[Len(consumed)] = DoneLine
    /\ delivered[1].Content = "ac"
    /\ DOMAIN toolCallsMap # {}

\* C15: the sink has been called exactly once for each content delta read,
\* in arrival order, by the time the next line is read.
C15_SinkCalledOncePerDelta == emitted = ContentDeltas

\* C15 witness: three content deltas have reached the sink.
C15_Witness ==
    /\ Len(emitted) = 3
    /\ emitted[1] # emitted[2]

CancelledError == "failed to process stream: context canceled"

\* C16 as claimed: when the context is cancelled before the stream has
\* ended (lines are still unread), the request ends with a cancellation
\* error and hands no response to onDone.
C16_CancelledBeforeEndFails ==
    (spc = "returned" /\ cancelPoint # <<>> /\ cancelPoint[1].unread > 0)
        => (streamErr = CancelledError /\ delivered = <<>>)

\* C16: when the context is found cancelled at an event boundary (the check
\* before a line is read), processing stops there with a cancellation error,
\* nothing more reaches the sink and onDone is not called; a request that
\* ends with an error never calls onDone, and a response is handed to onDone
\* only once the stream was read to its end, with all of its content.
C16_CancelSeenAtBoundary ==
    /\ [][(spc = "check" /\ ctxDone) =>
              /\ spc' = "returned"
              /\ streamErr' = CancelledError
              /\ emitted' = emitted
              /\ delivered' = <<>>]_vars
    /\ []((spc = "returned" /\ streamErr # "") => delivered = <<>>)
    /\ [](delivered # <<>> =>
              /\ ReadToEnd
              /\ streamErr = ""
              /\ delivered[1].Content = Concat(ContentDeltas))

\* C16 witness: cancelled at an event boundary after content had been
\* emitted and with lines left to read; the request ended with the
\* cancellation error and no response.
C16_Witness ==
    /\ spc = "returned"
    /\ cancelPoint # <<>>
    /\ cancelPoint[1].at = "check"
    /\ emitted # <<>>
    /\ stream # <<>>
    /\ streamErr = CancelledError
    /\ delivered = <<>>

-----------------------------------------------------------------------------
(* Properties of the retry wrappers *)

\* A failure with one of the five retryable statuses.
RetryableFailure(outcome) ==
    outcome.kind = "api" /\ outcome.status \in {429, 500, 502, 503, 504}

\* Every invocation up to the n-th failed with a retryable status.
AllRetryableFailures(n) ==
    \A j \in 1..n : RetryableFailure(outcomes[j])

\* The wrapper has returned, and not because of the context.
ReturnedUncancelled ==
    rpc = "returned" /\ retResult[1].how # "cancelled"

\* C17: in the API retry wrapper, after k <= 2 retryable failures in a row
\* the wrapper has not given up, so the operation gets its invocation k+1,
\* and when that invocation succeeds it is the last one and its value is
\* what the wrapper returns.
C17_SuccessAfterRetryableFailures ==
    policy = "api" =>
        /\ (ReturnedUncancelled /\ Len(outcomes) <= 2)
               => ~AllRetryableFailures(Len(outcomes))
        /\ \A k \in 0..2 :
               (/\ Len(outcomes) >= k + 1
                /\ AllRetryableFailures(k)
                /\ outcomes[k + 1].kind = "ok")
               => /\ Len(outcomes) = k + 1
                  /\ rpc = "returned"
                  /\ retResult = <<Returned("value", <<Succeeds>>)>>

\* Two failures with 429, then success: three invocations, the value returned.
C17_Witness ==
    /\ policy = "api"
    /\ outcomes = <<APIError(429), APIError(429), Succeeds>>
    /\ rpc = "returned"
    /\ retResult = <<Returned("value", <<Succeeds>>)>>
    /\ slept = <<500, 1000>>

\* C18: in the API retry wrapper, an invocation that fails with anything but
\* a retryable-status API error is the last one, the wrapper returns that
\* very error, and no backoff wait follows it; when it is the first
\* invocation, the operation was invoked exactly once and nothing was waited.
C18_NonRetryableReturnedAtOnce ==
    (policy = "api" /\ outcomes # <<>>) =>
        \A j \in 1..Len(outcomes) :
            (outcomes[j].kind # "ok" /\ ~RetryableFailure(outcomes[j]))
            => /\ Len(outcomes) = j
               /\ rpc = "returned"
               /\ retResult = <<Returned("as-is", <<outcomes[j]>>)>>
               /\ Len(slept) = j - 1

\* A 400 on the first invocation: one invocation, the error handed on.
C18_Witness ==
    /\ policy = "api"
    /\ outcomes = <<APIError(400)>>
    /\ rpc = "returned"
    /\ retResult = <<Returned("as-is", <<APIError(400)>>)>>
    /\ slept = <<>>

\* C19: one call of the API retry wrapper invokes the operation at most 3
\* times; when it returns, uncancelled, after nothing but retryable failures,
\* there were exactly 3 invocations and the error wraps the last failure.
C19_AtMostThreeInvocations ==
    policy = "api" =>
        /\ Len(outcomes) <= 3
        /\ (ReturnedUncancelled /\ AllRetryableFailures(Len(outcomes)))
               => /\ Len(outcomes) = 3
                  /\ retResult = <<Returned("exceeded", <<outcomes[3]>>)>>

\* Three retryable failures, the last of them wrapped.
C19_Witness ==
    /\ policy = "api"
    /\ outcomes = <<APIError(503), APIError(429), APIError(500)>>
    /\ rpc = "returned"
    /\ retResult = <<Returned("exceeded", <<APIError(500)>>)>>

C21_NoRetryOnceStreaming ==
    policy = "stream" =>
        /\ \A j \in 1..Len(outcomes) :
               outcomes[j].kind = "ok" => j = Len(outcomes)
        /\ emitted = ContentDeltas

\* A stream opened at the second attempt breaks after a content delta has
\* reached the sink; the request has returned the error.
C21_Witness ==
    /\ policy = "stream"
    /\ outcomes = <<APIError(503), Succeeds>>
    /\ rpc = "returned"
    /\ retResult = <<Returned("stream-error", <<>>)>>
    /\ streamErr = "failed to process stream: unexpected EOF"
    /\ emitted # <<>>

\* A failure that asks for a key rotation.
RotatableFailure(outcome) ==
    outcome.kind = "api" /\ outcome.status \in {401, 403, 429}

\* The search wrapper, with two keys or more, has given up on a failure with
\* status 401, 403 or 429.
GaveUpOnRotatableFailure ==
    /\ policy = "search"
    /\ keyCount >= 2
    /\ ReturnedUncancelled
    /\ outcomes # <<>>
    /\ RotatableFailure(outcomes[Len(outcomes)])

\* C22: in the search-key rotation policy with two keys or more, the search
\* gives up on a failure with status 401, 403 or 429 only when no further
\* key exists, and it then reports that the keys are exhausted.
C22_GivesUpOnlyWhenKeysExhausted ==
    GaveUpOnRotatableFailure
        => /\ currentIdx = keyCount - 1
           /\ retResult = <<Returned("no-keys", <<outcomes[Len(outcomes)]>>)>>

\* What holds of C22: a search that starts with at most four keys ahead of
\* the current one gives up on such failures only with the keys exhausted,
\* after one invocation for each key from the current one on.
C22_ExhaustsWithinFiveAttempts ==
    (GaveUpOnRotatableFailure /\ Len(outcomes) < MaxRetryAttempts)
        => /\ currentIdx = keyCount - 1
           /\ retResult = <<Returned("no-keys", <<outcomes[Len(outcomes)]>>)>>
           /\ \A j \in 1..Len(outcomes) : RotatableFailure(outcomes[j])

\* A search begins: the first attempt of a search has not been made yet.
SearchBegins ==
    /\ policy = "search"
    /\ rpc \in {"direct", "check"}
    /\ attempt = 0
    /\ outcomes = <<>>

\* C40: across the searches of one search client the current key index never
\* decreases and the pool never changes, the index of a client with keys is
\* that of one of its keys, and a search starts at the index the search
\* before it ended on.
C40_KeyIndexNeverGoesBack ==
    /\ [](policy = "search" => currentIdx >= 0)
    /\ []((policy = "search" /\ keyCount > 0) => currentIdx < keyCount)
    /\ [][policy = "search"
              => /\ currentIdx' >= currentIdx
                 /\ keyCount' = keyCount
                 /\ (SearchBegins' /\ rpc = "returned") => currentIdx' = currentIdx]_vars

\* A later search of a client begins at a key past the first one, after
\* rotations of earlier searches.
C40_Witness ==
    /\ SearchBegins
    /\ currentIdx > 0
    /\ keyCount > 1

-----------------------------------------------------------------------------
(* Properties of the token manager *)

\* The expiry is more than 60 seconds after time t, and there is a token.
ValidAt(token, expires, t) == token # 0 /\ expires - t > 60

\* The caller found its copy of the cached token valid when it looked.
FoundValid(self) ==
    ValidAt(procs[self].token, procs[self].expiresAt, procs[self].checkedAt)

C24_OneRefreshServesAll ==
    ValidAt(tm.copilotToken, tm.expiresAt, now) =>
        /\ tlog.n = tm.copilotToken
        /\ \A self \in Goroutines : procs[self].pc # "request"

\* Both callers and the background goroutine found no valid token; one
\* request was sent, by the background goroutine, and both callers returned
\* its token without a request of their own.
C24_Witness ==
    /\ tlog.n = 1
    /\ tlog.by = Background
    /\ \A self \in Callers :
           /\ procs[self].pc = "done"
           /\ ~FoundValid(self)
           /\ procs[self].own = 0
           /\ procs[self].ret = <<[token |-> 1, err |-> ""]>>
    /\ ValidAt(tm.copilotToken, tm.expiresAt, now)

\* A goroutine waits for the credential lock: its RLock is behind a writer,
\* its Lock is behind another writer, or it waits for the readers to leave.
WaitsForLock(self) ==
    \/ self \in mu.blocked
    \/ procs[self].pc \in {"lock", "drain"}

\* C25: no interleaving of foreground calls of GetCopilotToken, those that
\* refresh included, with the background goroutine's refreshes deadlocks.
\* When every request to the credential endpoint returns, no call stays
\* for ever between its start and its return, and the background goroutine
\* does not wait for ever for the credential lock.
C25_NoDeadlock ==
    /\ \A self \in Callers : []<>(procs[self].pc \in {"idle", "done"})
    /\ []<>(~WaitsForLock(Background))

\* C25 witness: the background goroutine holds the write lock with its
\* request in flight, one caller waits for the write lock and the other
\* caller's RLock is blocked behind the writer.
C25_Witness ==
    /\ mu.w = Background
    /\ procs[Background].pc = "request"
    /\ 2 \in mu.blocked
    /\ procs[1].pc = "lock"

\* The background goroutine's last refresh failed and it is back at the top
\* of its loop.
RefreshFailed ==
    /\ procs[Background].pc = "loop"
    /\ procs[Background].ret # <<>>
    /\ procs[Background].ret[1].err # ""

\* The background goroutine waits in its select for a timer that is not due.
TimerPending ==
    /\ procs[Background].pc = "select"
    /\ now < procs[Background].deadline

\* C26: a failed refresh never ends the background goroutine.  It returns
\* only once its context is cancelled; after a failure it goes back to its
\* select, and unless it is cancelled it calls refreshToken again as soon
\* as its timer is due.
C26_FailedRefreshGoesOn ==
    /\ [][procs'[Background].pc = "stopped" => ctxDone]_vars
    /\ RefreshFailed ~>
           (procs[Background].pc = "lock" \/ TimerPending \/ ctxDone)

\* C26 witness: the background goroutine's first refresh failed, nobody
\* cancelled it, and its second request is in flight.
C26_Witness ==
    /\ procs[Background].pc = "request"
    /\ procs[Background].own = 2
    /\ procs[Background].ret # <<>>
    /\ procs[Background].ret[1].err # ""
    /\ ~ctxDone

\* The background goroutine holds nothing of the credential lock.
HoldsNoLock(self) ==
    /\ mu.w # self
    /\ self \notin mu.readers
    /\ self \notin mu.blocked

\* What Close does to the token manager it is called on: once the context is
\* cancelled the background goroutine sends no new request, it returns, and
\* when it has returned it holds nothing of the lock.
ClosedTaskStops ==
    /\ [][(ctxDone /\ procs'[Background].pc = "request")
              => procs[Background].pc = "request"]_vars
    /\ ctxDone ~> (procs[Background].pc = "stopped")
    /\ [](procs[Background].pc = "stopped" => HoldsNoLock(Background))

\* The background goroutine has returned after Close, with nothing held.
ClosedTaskStopped ==
    /\ ctxDone
    /\ procs[Background].pc = "stopped"
    /\ procs[Background].own > 0
    /\ HoldsNoLock(Background)

\* C27: when the session has ended, the refresh task of every client it
\* created has been told to stop, the client in use at the end included.
C27_TaskStoppedWhenSessionCloses ==
    session.returned =>
        \A i \in 1..Len(session.clients) : session.clients[i].refresh # "running"

\* The turn is over: sendInteractiveMessageWithTools has returned.
TurnOver == pc = "idle"

\* A round of tool calls is under way.
ToolRound == pc = "tools" /\ pending # <<>>

\* C28 as stated: every run of the agent loop terminates eventually.
C28_EveryRunTerminates == <>TurnOver

\* C28, amended: a run of the agent loop terminates, with the content of the
\* first response that carries no tool calls or with the error of the first
\* request that fails, unless the model goes on answering with tool calls
\* for ever; the loop has no cap on its rounds.
C28_TerminatesUnlessToolsForEver ==
    /\ []<>ToolRound \/ <>TurnOver
    /\ [](TurnOver => turnEnd \in {"answer", "cancelled", "error"})

\* C28 witness: after a round of tool calls the model answered without any,
\* and the turn ended with that answer stored.
C28_Witness ==
    /\ TurnOver
    /\ turnEnd = "answer"
    /\ Len(messages) >= 2
    /\ messages[Len(messages)] = AssistantMessage("answer")
    /\ messages[Len(messages) - 1].Role = "tool"

\* C39: when the background goroutine, back from a refresh attempt, sets the
\* timer for its next one, the timer runs for a positive time, also after a
\* failed attempt, with no token yet or with a token within the buffer of
\* its expiry.  (A goroutine whose context is cancelled is on its way out.)
C39_PositiveWaitBetweenAttempts ==
    [][(/\ procs[Background].pc = "rlock"
        /\ procs'[Background].pc = "select"
        /\ procs[Background].ret # <<>>
        /\ ~ctxDone)
           => procs'[Background].deadline > now]_vars

-----------------------------------------------------------------------------
(* Properties of the file tools *)

\* The path as it is given lies under a protected directory or under the
\* /private alias of one.
UnderProtected(path) == BlockedBy(PathString(Abs(path))) # {}

\* The call that has just been handled.
LastCall == fs.last[1]

\* C29: a write_file, edit_file or delete_file call on a path under a
\* protected system directory, or under the /private alias of one, leaves
\* the file system as it was and yields a tool message whose text begins
\* with "Blocked".
C29_ProtectedPathNeverModified ==
    [][(/\ fs'.last[1].tool \in ModifyingTools
        /\ UnderProtected(fs'.last[1].path))
           => /\ HasPrefix(fs'.last[1].message.Content, "Blocked")
              /\ fs'.last[1].message.Role = "tool"
              /\ fs'.nodes = fs.nodes]_vars

\* What the check does achieve: a changing call on a path whose resolved
\* form, as IsPathSafe computes it, lies under a protected directory is
\* blocked before anything is touched.
BlockedWhenResolvedProtected ==
    [][(/\ fs'.last[1].tool \in ModifyingTools
        /\ BlockedBy(PathString(checkedPath(fs.nodes, fs'.last[1].path))) # {})
           => /\ HasPrefix(fs'.last[1].message.Content, "Blocked")
              /\ ~fs'.last[1].touched
              /\ fs'.nodes = fs.nodes]_vars

\* A write to /var/f was blocked on macOS, where it resolves to
\* /private/var/f.
BlockedThroughAlias ==
    /\ fs.last # <<>>
    /\ LastCall.tool = "write_file"
    /\ LastCall.path = <<"var", "f">>
    /\ <<"private", "var", "f">> \in DOMAIN fs.nodes
    /\ HasPrefix(LastCall.message.Content, "Blocked")

\* C30 as stated: every file tool that touches the file system has passed
\* the path-safety check first.
C30_EveryFileToolChecksPath ==
    (fs.last # <<>> /\ LastCall.touched) => LastCall.safe = <<TRUE>>

\* C30, amended: write_file, edit_file and delete_file touch the file
\* system only after IsPathSafe has answered safe, and nothing else changes
\* the file system; read_file, search_files and list_directory are not
\* checked, change nothing, and do read under protected directories.
C30_ChangingToolsCheckPath ==
    [][/\ (fs'.last[1].tool \in ModifyingTools /\ fs'.last[1].touched)
              => fs'.last[1].safe = <<TRUE>>
       /\ fs'.nodes # fs.nodes
              => (fs'.last[1].tool \in ModifyingTools /\ fs'.last[1].safe = <<TRUE>>)
       /\ fs'.last[1].tool \notin ModifyingTools
              => (/\ fs'.last[1].safe = <<>>
                  /\ fs'.last[1].touched
                  /\ fs'.nodes = fs.nodes)]_vars

\* C30 witness: read_file gave back the content of /var/f unchecked, on a
\* file system where a write to that path is blocked.
C30_Witness ==
    /\ fs.last # <<>>
    /\ LastCall.tool = "read_file"
    /\ LastCall.path = <<"var", "f">>
    /\ LastCall.safe = <<>>
    /\ LastCall.message.Content = "old"
    /\ ~IsPathSafe(fs.nodes, LastCall.path).safe

-----------------------------------------------------------------------------
(* Properties of the settings merge *)

\* The project settings file defines the toggle.
ProjectDefines(key) == projectFile # <<>> /\ key \in projectFile[1].keys

\* C31: with project settings loaded, the effective value of each toggle
\* is the project's value when the project file defines the toggle, and the
\* global value when it does not.
C31_ProjectToggleOverridesWhenDefined ==
    project # <<>> =>
        /\ merged.AutoAllowSafeCommands =
               IF ProjectDefines("auto_allow_safe_commands")
               THEN project[1].AutoAllowSafeCommands
               ELSE global.AutoAllowSafeCommands
        /\ merged.DangerousEnabled =
               IF ProjectDefines("dangerous_enabled")
               THEN project[1].DangerousEnabled
               ELSE global.DangerousEnabled

-----------------------------------------------------------------------------
(* Properties of the settings manager's lock *)

\* The goroutine holds mu for writing.
HoldsWriteLock(self) == sm.mu.w = self /\ sm.mu.readers = {}

\* The goroutine holds mu for reading.
HoldsReadLock(self) == self \in sm.mu.readers

\* C32: a goroutine inside a write of a field of the Manager holds the
\* writer lock, a goroutine inside a read holds the writer lock or the
\* shared lock, and no two goroutines are inside accesses to one field of
\* which one is a write.
C32_WritesUnderWriterLock ==
    \A self \in Users :
        sm.procs[self].cur # <<>> =>
            /\ IF sm.procs[self].cur[1].write
               THEN HoldsWriteLock(self)
               ELSE HoldsWriteLock(self) \/ HoldsReadLock(self)
            /\ ~Conflicts(self, sm.procs[self].cur[1])

-----------------------------------------------------------------------------
(* Properties of the provider clients *)

\* The request is over, not by cancellation, and its first attempt failed
\* with a transient status.
FirstAttemptTransient ==
    /\ rpc = "returned"
    /\ retResult[1].how # "cancelled"
    /\ outcomes # <<>>
    /\ outcomes[1].kind = "api"
    /\ outcomes[1].status \in RetryableStatusCodes

\* C38: a model request of either client, streaming or not, whose first
\* attempt fails with 429, 500, 502, 503 or 504 is attempted again.
C38_TransientFailureRetried ==
    FirstAttemptTransient => Len(outcomes) >= 2

=============================================================================
